---- MODULE Spec2Model ----
(***************************************************************************)
(* Model of the wagering platform's ledger and crash engine.               *)
(*                                                                         *)
(* Amounts are integers in units of 0.0001 token (the precision of         *)
(* calculatePayout); multipliers and crash points are integers in          *)
(* hundredths (100 = 1.00x).  Time is a clock of ticks of TickMs           *)
(* milliseconds.                                                           *)
(*                                                                         *)
(* The server is a single-threaded event loop: a handler runs without      *)
(* interruption up to its next `await`, so every action below is the code  *)
(* between two awaits.  A prisma.$transaction(async tx => ...) is opened   *)
(* without an isolationLevel, so it runs at the database default (READ     *)
(* COMMITTED): the findFirst/findUnique inside it takes no row lock, and   *)
(* the read and the update of one transaction are two steps between which  *)
(* other transactions on the same wallet may commit.  An update with       *)
(* {increment: x} is relative to the committed row; an update with a       *)
(* computed value overwrites the row with a value derived from the read.   *)
(***************************************************************************)
EXTENDS Integers, Sequences, FiniteSets, Bags, TLC

\* ---------------------------------------------------------------- bounds
Users == {"u1", "u2"}
MaxRounds == 1          \* crash rounds created in one behaviour with cash-outs
MaxGames == 2           \* crash rounds created in one behaviour of the round cycle
MaxCalls == 2           \* request handlers in flight at the same time
MaxTime == 3            \* last clock tick
InitBalance == 50       \* balance of every wallet in the initial state
MaxGsRounds == 1        \* GameService crash rounds created in one behaviour
MaxShootout == 1        \* shootout games created in one behaviour
HashBits == 8           \* leading bits of a digest that decide the crash point (52 in the code)
TailBits == 2           \* remaining bits of a digest (204 in the code)
MaxSeed == 3            \* distinct server seeds and client seeds
MaxNonce == 1           \* largest nonce handed to verifyGame
SpinBits == 5           \* leading bits of a digest that decide a shootout (32 in the code)
MaxRejects == 1         \* rejected joinGame / cancelGame calls in one behaviour
MaxLobbyGames == 2      \* shootout games created in one behaviour of the lobby
MantissaBits == 13      \* significand width of the floating-point numbers (53 in the build)
MaxWagerCents == 100    \* largest wager of a payout computation, in hundredths of a token
MaxSignatures == 1      \* transaction signatures submitted as deposits
MaxDeposits == 2        \* processDeposit calls in one behaviour
DepositAmount == 10     \* amount of the on-chain transfer behind a signature
MaxWithdrawals == 2     \* withdrawal requests in one behaviour of the withdrawal processor
MaxAdminCalls == 1      \* admin refund requests in progress at a time
MaxStuckTicks == 122    \* clock range of the withdrawal processor, in ticks
MaxDecimals == 1        \* decimal places kept by sanitizeAmount (MAX_DECIMALS, 9 in the build)
MaxBalanceTenths == 15  \* largest balance of a reversal computation, in tenths of a token
Wagers == {30}
CrashPoints == {100, 300}
CallerMultipliers == {100, 300}   \* cashoutMultiplier values sent by clients

GameIds == 1..MaxGames
LedgerClients == {"u1"}  \* users sending wallet and GameService requests, and
                         \* the player of the single-player runs
BetGames == {1}          \* rounds on which the modelled clients place bets

\* ------------------------------------------------------- program constants
SYNC_INTERVAL_MS == 250
BETTING_WINDOW_MS == 5000
CLEANUP_DELAY_MS == 10000
WITHDRAWAL_COOLDOWN_MS == 60000
TickMs == 20 * SYNC_INTERVAL_MS

\* ------------------------------------------------------------- crash math
\* getMultiplierAtTime(elapsedMs) = floor(exp(0.00006 * elapsedMs^1.15) * 100) / 100,
\* tabulated in hundredths at elapsedMs = k * TickMs.
MultiplierTable == <<293, 1089, 4504, 20048, 94524>>

getMultiplierAtTime(elapsedTicks) ==
    IF elapsedTicks <= 0 THEN 100
    ELSE IF elapsedTicks <= Len(MultiplierTable) THEN MultiplierTable[elapsedTicks]
    ELSE MultiplierTable[Len(MultiplierTable)]

\* getTimeForMultiplier(m) = floor((ln(m) / 0.00006)^(1/1.15)) in ms,
\* tabulated for the crash points of the model.
getTimeForMultiplier(multiplier) ==
    IF multiplier <= 100 THEN 0
    ELSE CASE multiplier = 150 -> 2139
           [] multiplier = 200 -> 3410
           [] multiplier = 300 -> 5089
           [] OTHER -> 7787

\* calculatePayout(wager, multiplier) = floor(wager * multiplier * 10000) / 10000
calculatePayout(wager, multiplier) == (wager * multiplier) \div 100

Max(a, b) == IF a >= b THEN a ELSE b

\* ------------------------------------------------------------------ state
VARIABLES
    now,          \* Date.now() in ticks
    wallet,       \* custodialWallet rows: user -> balance, pendingBalance, lockedBalance
    activeGames,  \* crash-service activeGames map: game id -> ActiveGame or absent
    created,      \* number of crash rounds registered so far (next id = created + 1)
    creating,     \* createGame calls awaiting prisma.gameRound.create (crash points)
    timers,       \* pending setTimeout callbacks
    calls,        \* request handlers suspended at an await (bag of frames)
    gameTask,     \* the suspended startGame / crashGame callback of each round
    gsRounds,     \* gameRound rows written by GameService (crash rounds)
    withdrawalCooldowns,  \* deposit-service rate-limit map: user -> tick or -1
    lockCount,    \* history: committed wager locks per round and user
    betOk,        \* history: placeBet calls that returned success per round and user
    cashOk,       \* history: cashout calls that succeeded per round and user
    winCredits,   \* history: committed creditWinnings per round and user
    lossDebits,   \* history: committed deductLoss per round and user
    events,       \* query responses and broadcasts sent so far, with the fields they carry
    shootout,     \* shootout games created by ShootoutService.createGame
    fair,         \* a provably-fair session: seeds, commitment, outcome, verification
    pots,         \* a money computation in floating point: the payout of a shootout
                  \* settlement, or the balance through a withdrawal and its refund
    withdrawals,  \* pendingWithdrawal rows with their ledger transaction and background
                  \* task, and the stuck lists of admin requests in progress
    jobs,         \* background token transfers started by placeBet and creditWinnings
    snapshots,    \* balanceSnapshot rows of each user, in the order of their creation
    deposits      \* pendingDeposit rows by transaction signature, and the processDeposit
                  \* calls and background deposit tasks started so far

vars == <<now, wallet, activeGames, created, creating, timers, calls, gameTask,
          gsRounds, withdrawalCooldowns, lockCount, betOk, cashOk, winCredits, lossDebits,
          events, shootout, fair, pots, deposits, withdrawals, jobs, snapshots>>

ext == <<pots, withdrawals, jobs, snapshots, deposits>>

aux == <<events, shootout, fair, ext>>

NoSession == [pc |-> "none", serverSeed |-> 0, serverSeedHash |-> 0, clientSeed |-> 0,
              nonce |-> 0, hash |-> 0, crashPoint |-> 0, houseEdge |-> 0,
              claimed |-> 0, valid |-> FALSE]

NoPot == [pc |-> "none"]

\* no pendingDeposit row for a signature; lockedBy is the task whose open
\* transaction has written the row, credits counts the balance credits
NoDeposit == [status |-> "none", lockedBy |-> 0, credits |-> 0]

Signatures == 1..MaxSignatures

hist == <<lockCount, betOk, cashOk, winCredits, lossDebits>>

Absent == [status |-> "absent", crashPoint |-> 0, startTime |-> 0, players |-> <<>>]
NoTask == [pc |-> "none", idx |-> 0, user |-> "", amount |-> 0,
           snapBalance |-> 0, snapPending |-> 0]
ZeroCount == [g \in GameIds |-> [u \in Users |-> 0]]

withdrawable(w) == w.balance - w.pendingBalance - w.lockedBalance

\* index of user u in a players map (0 when absent): Map.has / Map.get
PlayerIndex(players, u) ==
    IF \E i \in 1..Len(players) : players[i].oderId = u
    THEN CHOOSE i \in 1..Len(players) : players[i].oderId = u
    ELSE 0

\* Map.set: overwrite in place when the key exists, append otherwise
PlayersSet(players, entry) ==
    LET i == PlayerIndex(players, entry.oderId)
    IN IF i = 0 THEN Append(players, entry) ELSE [players EXCEPT ![i] = entry]

\* a suspended handler: its arguments, its position, and the wallet row its
\* transaction has read
Frame(op, g, u, amount, payout, pc) ==
    [op |-> op, game |-> g, user |-> u, amount |-> amount, payout |-> payout,
     mult |-> 0, pc |-> pc, snapBalance |-> 0, snapPending |-> 0, snapLocked |-> 0]

\* tx.custodialWallet.findFirst / findUnique inside a transaction
ReadWallet(c, pc) ==
    [c EXCEPT !.pc = pc,
              !.snapBalance = wallet[c.user].balance,
              !.snapPending = wallet[c.user].pendingBalance,
              !.snapLocked = wallet[c.user].lockedBalance]

snapWallet(c) == [balance |-> c.snapBalance, pendingBalance |-> c.snapPending,
                  lockedBalance |-> c.snapLocked]

InFlight == BagToSet(calls)
Suspend(c) == calls (+) SetToBag({c})
Replace(c, d) == (calls (-) SetToBag({c})) (+) SetToBag({d})
Finish(c) == calls (-) SetToBag({c})

Bump(f, g, u) == [f EXCEPT ![g][u] = @ + 1]

Init ==
    /\ now = 0
    /\ wallet = [u \in Users |-> [balance |-> InitBalance, pendingBalance |-> 0,
                                  lockedBalance |-> 0]]
    /\ activeGames = [g \in GameIds |-> Absent]
    /\ created = 0
    /\ creating = EmptyBag
    /\ timers = {}
    /\ calls = EmptyBag
    /\ gameTask = [g \in GameIds |-> NoTask]
    /\ gsRounds = <<>>
    /\ withdrawalCooldowns = [u \in Users |-> -1]
    /\ lockCount = ZeroCount
    /\ betOk = ZeroCount
    /\ cashOk = ZeroCount
    /\ winCredits = ZeroCount
    /\ lossDebits = ZeroCount
    /\ events = {}
    /\ shootout = <<>>
    /\ fair = NoSession
    /\ pots = NoPot
    /\ withdrawals = [rows |-> <<>>, admin |-> <<>>]
    /\ jobs = EmptyBag
    /\ snapshots = [u \in Users |-> <<>>]
    /\ deposits = [rows |-> [sig \in Signatures |-> NoDeposit], tasks |-> <<>>]

\* ------------------------------------------------------------ crash engine
\* createGame up to its first await: the session and the crash point are
\* drawn, then the handler waits for prisma.gameRound.create.
createGame(cp) == creating (+) SetToBag({cp})

CanCreateUpTo(cap) == created + BagCardinality(creating) < cap

CanCreate == CanCreateUpTo(MaxRounds)

\* GET /api/games/crash: getCurrentGame() finds no waiting or running round
\* and the route creates one.
Route_getCurrentGameUpTo(cap) ==
    /\ \A g \in GameIds : activeGames[g].status \notin {"waiting", "running"}
    /\ CanCreateUpTo(cap)
    /\ \E cp \in CrashPoints : creating' = createGame(cp)
    /\ UNCHANGED <<gsRounds, withdrawalCooldowns, now, wallet, activeGames, created, timers, calls, gameTask, hist, aux>>

Route_getCurrentGame == Route_getCurrentGameUpTo(MaxRounds)

\* createGame after prisma.gameRound.create: the round is stored in
\* activeGames and its start is scheduled.
Crash_createGame_register ==
    \E cp \in BagToSet(creating) :
        LET g == created + 1 IN
        /\ creating' = creating (-) SetToBag({cp})
        /\ created' = g
        /\ activeGames' = [activeGames EXCEPT ![g] =
               [status |-> "waiting", crashPoint |-> cp, startTime |-> 0,
                players |-> <<>>]]
        /\ timers' = timers \cup
               {[kind |-> "start", game |-> g, due |-> now * TickMs + BETTING_WINDOW_MS]}
        /\ UNCHANGED <<gsRounds, withdrawalCooldowns, now, wallet, calls, gameTask, hist, aux>>

\* CrashGameService.placeBet up to `await BalanceService.placeBet`.
Crash_placeBet(g, u, w) ==
    /\ BagCardinality(calls) < MaxCalls
    /\ activeGames[g].status = "waiting"
    /\ PlayerIndex(activeGames[g].players, u) = 0
    /\ calls' = Suspend(Frame("placeBet", g, u, w, 0, "lock_read"))
    /\ UNCHANGED <<gsRounds, withdrawalCooldowns, now, wallet, activeGames, created, creating, timers, gameTask, hist, aux>>

\* BalanceService.placeBet: the availability check of the transaction.
InsufficientFunds(amount, w) == amount > withdrawable(w)

\* tx.balanceSnapshot.create({userId, balance, reason}) appends a row
Snapshot(userId, balance, reason) ==
    [snapshots EXCEPT ![userId] = Append(@, [balance |-> balance, reason |-> reason])]

\* the background task started with runInBackground by placeBet
\* (transferBetToGameMaster) or creditWinnings (transferWinningsToUser),
\* waiting for its token transfer
TransferJob(kind, userId, amount) ==
    [kind |-> kind, userId |-> userId, amount |-> amount, pc |-> "transfer"]

\* a caller that goes on after a failed lock as after a successful one
Balance_placeBet_read_ignored(c) ==
    /\ c.pc = "lock_read"
    /\ calls' = IF InsufficientFunds(c.amount, wallet[c.user])
                THEN Replace(c, [c EXCEPT !.pc = "lock_done"])
                ELSE Replace(c, ReadWallet(c, "lock_write"))
    /\ UNCHANGED <<gsRounds, withdrawalCooldowns, now, wallet, activeGames, created, creating, timers, gameTask, hist, aux>>

\* BalanceService.placeBet: findFirst and the availability check of the
\* transaction; the callers return at once when the lock failed.
Balance_placeBet_read(c) ==
    /\ c.pc = "lock_read"
    /\ calls' = IF InsufficientFunds(c.amount, wallet[c.user])
                THEN Finish(c)
                ELSE Replace(c, ReadWallet(c, "lock_write"))
    /\ UNCHANGED <<gsRounds, withdrawalCooldowns, now, wallet, activeGames, created, creating, timers, gameTask, hist, aux>>

\* a lock that writes the pending balance computed from the value it read
Balance_placeBet_write_computed(c) ==
    /\ c.pc = "lock_write"
    /\ wallet' = [wallet EXCEPT ![c.user].pendingBalance = c.snapPending + c.amount]
    /\ calls' = Replace(c, [c EXCEPT !.pc = "lock_done"])
    /\ lockCount' = IF c.op = "placeBet" THEN Bump(lockCount, c.game, c.user)
                    ELSE lockCount
    /\ shootout' = IF c.op = "shootoutJoin"
                   THEN [shootout EXCEPT ![c.game].locks[c.user] = @ + 1]
                   ELSE shootout
    /\ jobs' = jobs (+) SetToBag({TransferJob("bet", c.user, c.amount)})
    /\ UNCHANGED <<gsRounds, withdrawalCooldowns, now, activeGames, created, creating, timers, gameTask,
                   betOk, cashOk, winCredits, lossDebits, events, fair, pots, deposits, withdrawals,
                   snapshots>>

\* BalanceService.placeBet: pendingBalance {increment: amount} and commit.
Balance_placeBet_write(c) ==
    /\ c.pc = "lock_write"
    /\ wallet' = [wallet EXCEPT ![c.user].pendingBalance = @ + c.amount]
    /\ calls' = Replace(c, [c EXCEPT !.pc = "lock_done"])
    /\ lockCount' = IF c.op = "placeBet" THEN Bump(lockCount, c.game, c.user)
                    ELSE lockCount
    /\ shootout' = IF c.op = "shootoutJoin"
                   THEN [shootout EXCEPT ![c.game].locks[c.user] = @ + 1]
                   ELSE shootout
    /\ jobs' = jobs (+) SetToBag({TransferJob("bet", c.user, c.amount)})
    /\ UNCHANGED <<gsRounds, withdrawalCooldowns, now, activeGames, created, creating, timers, gameTask,
                   betOk, cashOk, winCredits, lossDebits, events, fair, pots, deposits, withdrawals,
                   snapshots>>

\* CrashGameService.placeBet after the lock succeeded: game.players.set on
\* the game object fetched before the await (a round already deleted from
\* activeGames is no longer observable).
Crash_placeBet_resume(c) ==
    /\ c.op = "placeBet" /\ c.pc = "lock_done"
    /\ activeGames' =
         IF activeGames[c.game].status = "absent" THEN activeGames
         ELSE [activeGames EXCEPT ![c.game].players = PlayersSet(@,
                  [oderId |-> c.user, oderwager |-> c.amount,
                   odercashedOutAt |-> 0, oderpayout |-> 0])]
    /\ betOk' = Bump(betOk, c.game, c.user)
    /\ calls' = Finish(c)
    /\ UNCHANGED <<gsRounds, withdrawalCooldowns, now, wallet, created, creating, timers, gameTask,
                   lockCount, cashOk, winCredits, lossDebits, aux>>

TimerDue(t) == now * TickMs >= t.due

\* the guard of startGame with its status test inverted
CannotStart_inverted(status) == status # "absent" /\ status = "waiting"

\* startGame: `!game || game.status !== "waiting"` returns
CannotStart(status) == status # "waiting"

\* CrashGameService.startGame up to `await prisma.gameRound.updateMany`.
startGame(g) ==
    IF CannotStart(activeGames[g].status)
    THEN UNCHANGED <<activeGames, gameTask>>
    ELSE /\ activeGames' = [activeGames EXCEPT ![g].status = "running",
                                               ![g].startTime = now]
         /\ gameTask' = [gameTask EXCEPT ![g] = [NoTask EXCEPT !.pc = "starting"]]

\* the start timer of createGame fires
Crash_startGame(g) ==
    \E t \in timers :
        /\ t.kind = "start" /\ t.game = g /\ TimerDue(t)
        /\ timers' = timers \ {t}
        /\ startGame(g)
        /\ UNCHANGED <<gsRounds, withdrawalCooldowns, now, wallet, created, creating, calls, hist, aux>>

\* startGame after the await: the crash is scheduled.
Crash_startGame_resume(g) ==
    /\ gameTask[g].pc = "starting"
    /\ timers' = timers \cup
           {[kind |-> "crash", game |-> g,
             due |-> now * TickMs + getTimeForMultiplier(activeGames[g].crashPoint)]}
    /\ gameTask' = [gameTask EXCEPT ![g] = NoTask]
    /\ UNCHANGED <<gsRounds, withdrawalCooldowns, now, wallet, activeGames, created, creating, calls, hist, aux>>

\* the server-authority check with the comparison weakened to `>`: a
\* cash-out at exactly the crash point would pass
AlreadyCrashed_strict(multiplier, crashPoint) == multiplier > crashPoint

\* cashout's server-authority check: `multiplier >= game.crashPoint` rejects.
AlreadyCrashed(multiplier, crashPoint) == multiplier >= crashPoint

\* CrashGameService.cashout up to `await BalanceService.creditWinnings`:
\* the checks, the server-side multiplier, and the update of the Position.
Crash_cashout(g, u) ==
    LET game == activeGames[g]
        i == PlayerIndex(game.players, u)
        multiplier == getMultiplierAtTime(now - game.startTime)
        player == game.players[i]
        payout == calculatePayout(player.oderwager, multiplier)
    IN
    /\ BagCardinality(calls) < MaxCalls
    /\ game.status = "running"
    /\ i # 0
    /\ player.odercashedOutAt = 0
    /\ ~AlreadyCrashed(multiplier, game.crashPoint)
    /\ activeGames' = [activeGames EXCEPT ![g].players[i] =
           [@ EXCEPT !.odercashedOutAt = multiplier, !.oderpayout = payout]]
    /\ calls' = Suspend(Frame("cashout", g, u, player.oderwager, payout,
                              "credit_read"))
    /\ cashOk' = Bump(cashOk, g, u)
    /\ UNCHANGED <<gsRounds, withdrawalCooldowns, now, wallet, created, creating, timers, gameTask,
                   lockCount, betOk, winCredits, lossDebits, aux>>

\* BalanceService.creditWinnings: findFirst inside the transaction.
Balance_creditWinnings_read(c) ==
    /\ c.pc = "credit_read"
    /\ calls' = Replace(c, ReadWallet(c, "credit_write"))
    /\ UNCHANGED <<gsRounds, withdrawalCooldowns, now, wallet, activeGames, created, creating, timers, gameTask, hist, aux>>

\* BalanceService.creditWinnings: update with the computed values and commit;
\* the caller's remaining steps only write round records.
Balance_creditWinnings_write(c) ==
    /\ c.pc = "credit_write"
    /\ wallet' = [wallet EXCEPT
           ![c.user].balance = c.snapBalance + (c.payout - c.amount),
           ![c.user].pendingBalance = Max(0, c.snapPending - c.amount)]
    /\ winCredits' = Bump(winCredits, c.game, c.user)
    /\ calls' = Finish(c)
    /\ jobs' = IF c.payout - c.amount > 0
               THEN jobs (+) SetToBag({TransferJob("winnings", c.user, c.payout - c.amount)})
               ELSE jobs
    /\ snapshots' = Snapshot(c.user, c.snapBalance + (c.payout - c.amount), "game_win")
    /\ UNCHANGED <<gsRounds, withdrawalCooldowns, now, activeGames, created, creating, timers, gameTask,
                   lockCount, betOk, cashOk, lossDebits, events, shootout, fair, pots, deposits, withdrawals>>

\* next entry of the live players iteration, after position `from`, that has
\* no recorded cash-out (0 when the iteration is exhausted)
NextLoser(players, from) ==
    IF \E i \in (from + 1)..Len(players) : players[i].odercashedOutAt = 0
    THEN CHOOSE i \in (from + 1)..Len(players) :
             /\ players[i].odercashedOutAt = 0
             /\ \A j \in (from + 1)..(i - 1) : players[j].odercashedOutAt # 0
    ELSE 0

\* the crashGame loop reaching its next await: deductLoss for the next
\* player without a cash-out, or the update of the main round record
LoopTask(players, from) ==
    LET i == NextLoser(players, from) IN
    IF i = 0 THEN [NoTask EXCEPT !.pc = "finalize"]
    ELSE [NoTask EXCEPT !.pc = "loss_read", !.idx = i,
                        !.user = players[i].oderId,
                        !.amount = players[i].oderwager]

\* the guard of crashGame without its status test: only `!game` returns
CannotCrash_noStatus(status) == status = "absent"

\* crashGame: `!game || game.status !== "running"` returns
CannotCrash(status) == status # "running"

\* CrashGameService.crashGame up to its first await.
crashGame(g) ==
    IF CannotCrash(activeGames[g].status)
    THEN UNCHANGED <<activeGames, gameTask>>
    ELSE /\ activeGames' = [activeGames EXCEPT ![g].status = "crashed"]
         /\ gameTask' = [gameTask EXCEPT ![g] = LoopTask(activeGames[g].players, 0)]

\* the crash timer of startGame fires
Crash_crashGame(g) ==
    \E t \in timers :
        /\ t.kind = "crash" /\ t.game = g /\ TimerDue(t)
        /\ timers' = timers \ {t}
        /\ crashGame(g)
        /\ UNCHANGED <<gsRounds, withdrawalCooldowns, now, wallet, created, creating, calls, hist, aux>>

\* BalanceService.deductLoss: findFirst inside the transaction.
Balance_deductLoss_read(g) ==
    /\ gameTask[g].pc = "loss_read"
    /\ gameTask' = [gameTask EXCEPT ![g].pc = "loss_write",
                        ![g].snapBalance = wallet[gameTask[g].user].balance,
                        ![g].snapPending = wallet[gameTask[g].user].pendingBalance]
    /\ UNCHANGED <<gsRounds, withdrawalCooldowns, now, wallet, activeGames, created, creating, timers, calls, hist, aux>>

\* BalanceService.deductLoss: update with the computed values and commit.
Balance_deductLoss_write(g) ==
    LET t == gameTask[g] IN
    /\ t.pc = "loss_write"
    /\ wallet' = [wallet EXCEPT
           ![t.user].balance = t.snapBalance - t.amount,
           ![t.user].pendingBalance = Max(0, t.snapPending - t.amount)]
    /\ lossDebits' = Bump(lossDebits, g, t.user)
    /\ gameTask' = [gameTask EXCEPT ![g].pc = "loss_done"]
    /\ snapshots' = Snapshot(t.user, t.snapBalance - t.amount, "game_loss")
    /\ UNCHANGED <<gsRounds, withdrawalCooldowns, now, activeGames, created, creating, timers, calls,
                   lockCount, betOk, cashOk, winCredits, events, shootout, fair, pots, deposits,
                   withdrawals, jobs>>

\* crashGame resumes after a loser's records were written: the iteration
\* continues over the players map as it is now.
Crash_crashGame_next(g) ==
    /\ gameTask[g].pc = "loss_done"
    /\ gameTask' = [gameTask EXCEPT ![g] = LoopTask(activeGames[g].players, gameTask[g].idx)]
    /\ UNCHANGED <<gsRounds, withdrawalCooldowns, now, wallet, activeGames, created, creating, timers, calls, hist, aux>>

\* crashGame after the main round record was updated: the cleanup is
\* scheduled and the next round is created.
\* the end of crashGame without its last statement: the cleanup is
\* scheduled, no next round is created
Crash_crashGame_finish_noNext(g, cap) ==
    /\ gameTask[g].pc = "finalize"
    /\ gameTask' = [gameTask EXCEPT ![g] = NoTask]
    /\ timers' = timers \cup
           {[kind |-> "delete", game |-> g, due |-> now * TickMs + CLEANUP_DELAY_MS]}
    /\ UNCHANGED <<gsRounds, withdrawalCooldowns, now, wallet, activeGames, created, creating, calls, hist, aux>>

Crash_crashGame_finishUpTo(g, cap) ==
    /\ gameTask[g].pc = "finalize"
    /\ gameTask' = [gameTask EXCEPT ![g] = NoTask]
    /\ timers' = timers \cup
           {[kind |-> "delete", game |-> g, due |-> now * TickMs + CLEANUP_DELAY_MS]}
    /\ \E cp \in CrashPoints :
           creating' = IF CanCreateUpTo(cap) THEN createGame(cp) ELSE creating
    /\ UNCHANGED <<gsRounds, withdrawalCooldowns, now, wallet, activeGames, created, calls, hist, aux>>

Crash_crashGame_finish(g) == Crash_crashGame_finishUpTo(g, MaxRounds)

\* cleanup timer: activeGames.delete(gameId)
Crash_deleteGame(g) ==
    \E t \in timers :
        /\ t.kind = "delete" /\ t.game = g /\ TimerDue(t)
        /\ timers' = timers \ {t}
        /\ activeGames' = [activeGames EXCEPT ![g] = Absent]
        /\ UNCHANGED <<gsRounds, withdrawalCooldowns, now, wallet, created, creating, calls, gameTask, hist, aux>>

\* the clock advances while something is scheduled or running
Tick ==
    /\ now < MaxTime
    /\ timers # {} \/ \E g \in GameIds : activeGames[g].status = "running"
    /\ now' = now + 1
    /\ UNCHANGED <<wallet, activeGames, created, creating, timers, calls, gameTask,
                   gsRounds, withdrawalCooldowns, hist, aux>>

Next ==
    \/ Route_getCurrentGame
    \/ Crash_createGame_register
    \/ \E g \in BetGames, u \in Users, w \in Wagers : Crash_placeBet(g, u, w)
    \/ \E c \in InFlight : Balance_placeBet_read(c)
    \/ \E c \in InFlight : Balance_placeBet_write(c)
    \/ \E c \in InFlight : Crash_placeBet_resume(c)
    \/ \E g \in GameIds : Crash_startGame(g)
    \/ \E g \in GameIds : Crash_startGame_resume(g)
    \/ \E g \in GameIds, u \in Users : Crash_cashout(g, u)
    \/ \E c \in InFlight : Balance_creditWinnings_read(c)
    \/ \E c \in InFlight : Balance_creditWinnings_write(c)
    \/ \E g \in GameIds : Crash_crashGame(g)
    \/ \E g \in GameIds : Balance_deductLoss_read(g)
    \/ \E g \in GameIds : Balance_deductLoss_write(g)
    \/ \E g \in GameIds : Crash_crashGame_next(g)
    \/ \E g \in GameIds : Crash_crashGame_finish(g)
    \/ \E g \in GameIds : Crash_deleteGame(g)
    \/ Tick

Spec == Init /\ [][Next]_vars

TypeOK ==
    /\ now \in 0..MaxTime
    /\ created \in 0..MaxGames
    /\ BagCardinality(calls) <= MaxCalls

\* ------------------------------------------- TransactionService / GameService
crashVars == <<activeGames, created, creating, timers, gameTask>>

\* TransactionService.create: the transaction type implied by the caller
TxType(op) ==
    CASE op = "createCrash" -> "GAME_BET"
      [] op = "cashoutCrash" -> "GAME_WIN"
      [] OTHER -> "WITHDRAWAL"

\* TransactionService.create: balanceChange by type
balanceChange(type, amount) ==
    IF type \in {"DEPOSIT", "GAME_WIN", "GAME_REFUND", "BONUS"} THEN amount
    ELSE IF type \in {"WITHDRAWAL", "GAME_BET", "FEE"} THEN -amount
    ELSE 0

\* TransactionService.create: `balanceAfter < 0` throws "Insufficient balance"
TxRejected(type, amount, w) == w.balance + balanceChange(type, amount) < 0

\* TransactionService.create: findUnique and the balance check; a throw
\* aborts the calling handler.
TxRead(c) ==
    IF TxRejected(TxType(c.op), c.amount, wallet[c.user])
    THEN EmptyBag
    ELSE SetToBag({ReadWallet(c, "tx_write")})

\* GameService.createCrash up to the balance check of
\* TransactionService.create (GAME_BET); the crash point is drawn first.
GS_createCrash(u, w, cp) ==
    /\ BagCardinality(calls) < MaxCalls
    /\ Len(gsRounds) + Cardinality({c \in InFlight : c.op = "createCrash"}) < MaxGsRounds
    /\ calls' = calls (+) TxRead([Frame("createCrash", 0, u, w, 0, "tx_read")
                                    EXCEPT !.mult = cp])
    /\ UNCHANGED <<now, wallet, crashVars, gsRounds, withdrawalCooldowns, hist, aux>>

\* POST /api/wallet action "withdraw": TransactionService.create (WITHDRAWAL)
\* up to its balance check.
Route_walletWithdraw(u, a) ==
    /\ BagCardinality(calls) < MaxCalls
    /\ ~TxRejected("WITHDRAWAL", a, wallet[u])
    /\ calls' = calls (+) TxRead(Frame("walletWithdraw", 0, u, a, 0, "tx_read"))
    /\ UNCHANGED <<now, wallet, crashVars, gsRounds, withdrawalCooldowns, hist, aux>>

\* TransactionService.create: update of the wallet with the computed
\* balanceAfter, snapshot and transaction record, commit.
TransactionService_create_write(c) ==
    /\ c.pc = "tx_write"
    /\ wallet' = [wallet EXCEPT ![c.user].balance =
                      c.snapBalance + balanceChange(TxType(c.op), c.amount)]
    /\ calls' = CASE c.op = "createCrash" -> Replace(c, [c EXCEPT !.pc = "gs_create"])
                  [] c.op = "cashoutCrash" -> Replace(c, [c EXCEPT !.pc = "gs_update"])
                  [] OTHER -> Finish(c)
    /\ UNCHANGED <<now, crashVars, gsRounds, withdrawalCooldowns, hist, aux>>

\* GameService.createCrash: tx.gameRound.create with status ACTIVE.
GS_createCrash_resume(c) ==
    /\ c.pc = "gs_create"
    /\ gsRounds' = Append(gsRounds,
           [userId |-> c.user, wagerAmount |-> c.amount, status |-> "ACTIVE",
            crashPoint |-> c.mult, startedAt |-> now, endedAt |-> 0,
            cashedOutAt |-> 0, payout |-> 0])
    /\ calls' = Finish(c)
    /\ UNCHANGED <<now, wallet, crashVars, withdrawalCooldowns, hist, aux>>

\* cashoutCrash: `cashoutMultiplier > crashData.crashPoint` throws
CannotCashOut(cashoutMultiplier, crashPoint) == cashoutMultiplier > crashPoint

\* GameService.cashoutCrash(gameRoundId, cashoutMultiplier) up to the await
\* of TransactionService.create (GAME_WIN): the round is read and checked,
\* payout = wagerAmount * cashoutMultiplier.
GS_cashoutCrash(r, cashoutMultiplier) ==
    /\ BagCardinality(calls) < MaxCalls
    /\ r \in 1..Len(gsRounds)
    /\ gsRounds[r].status = "ACTIVE"
    /\ ~CannotCashOut(cashoutMultiplier, gsRounds[r].crashPoint)
    /\ calls' = Suspend([Frame("cashoutCrash", r, gsRounds[r].userId,
                               (gsRounds[r].wagerAmount * cashoutMultiplier) \div 100,
                               0, "tx_read")
                          EXCEPT !.mult = cashoutMultiplier])
    /\ UNCHANGED <<now, wallet, crashVars, gsRounds, withdrawalCooldowns, hist, aux>>

\* TransactionService.create (GAME_WIN): findUnique of the wallet.
TransactionService_create_read(c) ==
    /\ c.pc = "tx_read"
    /\ calls' = (calls (-) SetToBag({c})) (+) TxRead(c)
    /\ UNCHANGED <<now, wallet, crashVars, gsRounds, withdrawalCooldowns, hist, aux>>

\* GameService.cashoutCrash: tx.gameRound.update to COMPLETED.
GS_cashoutCrash_update(c) ==
    /\ c.pc = "gs_update"
    /\ gsRounds' = [gsRounds EXCEPT ![c.game] =
           [@ EXCEPT !.status = "COMPLETED", !.payout = c.amount,
                     !.cashedOutAt = c.mult, !.endedAt = now]]
    /\ calls' = Finish(c)
    /\ UNCHANGED <<now, wallet, crashVars, withdrawalCooldowns, hist, aux>>

\* GameService.crashGame(gameRoundId): the round is read (only its
\* existence and game type are tested) and updated to COMPLETED with
\* won false and payout 0, in one transaction.
GS_crashGame(r) ==
    /\ r \in 1..Len(gsRounds)
    /\ gsRounds' = [gsRounds EXCEPT ![r] =
           [@ EXCEPT !.status = "COMPLETED", !.payout = 0, !.endedAt = now]]
    /\ UNCHANGED <<now, wallet, crashVars, calls, withdrawalCooldowns, hist, aux>>

\* the rounds of GameService: created, cashed out and crashed by its callers
NextGameService ==
    \/ \E u \in LedgerClients, w \in Wagers, cp \in CrashPoints : GS_createCrash(u, w, cp)
    \/ \E c \in InFlight : TransactionService_create_read(c)
    \/ \E c \in InFlight : TransactionService_create_write(c)
    \/ \E c \in InFlight : GS_createCrash_resume(c)
    \/ \E r \in 1..MaxGsRounds, m \in CallerMultipliers : GS_cashoutCrash(r, m)
    \/ \E c \in InFlight : GS_cashoutCrash_update(c)
    \/ \E r \in 1..MaxGsRounds : GS_crashGame(r)

SpecGameService == Init /\ [][NextGameService]_vars

\* ----------------------------------------------------------- DepositService
\* checkWithdrawalRateLimit
RateLimited(u) ==
    /\ withdrawalCooldowns[u] # -1
    /\ (now - withdrawalCooldowns[u]) * TickMs < WITHDRAWAL_COOLDOWN_MS

\* DepositService.requestWithdrawal up to `await WalletService.getByUserId`.
Deposit_requestWithdrawal(u, a) ==
    /\ BagCardinality(calls) < MaxCalls
    /\ ~RateLimited(u)
    /\ calls' = Suspend(Frame("requestWithdrawal", 0, u, a, 0, "wd_check"))
    /\ UNCHANGED <<now, wallet, crashVars, gsRounds, withdrawalCooldowns, hist, aux>>

\* requestWithdrawal after getByUserId: the availability pre-check, then
\* setWithdrawalTimestamp and the start of the transaction.  (The cleanup
\* of the cooldown entry after two minutes lies beyond the clock's range.)
Deposit_requestWithdrawal_check(c) ==
    /\ c.pc = "wd_check"
    /\ IF InsufficientFunds(c.amount, wallet[c.user])
       THEN /\ calls' = Finish(c)
            /\ UNCHANGED withdrawalCooldowns
       ELSE /\ calls' = Replace(c, [c EXCEPT !.pc = "wd_read"])
            /\ withdrawalCooldowns' = [withdrawalCooldowns EXCEPT ![c.user] = now]
    /\ UNCHANGED <<now, wallet, crashVars, gsRounds, hist, aux>>

\* requestWithdrawal: findUnique and the availability check inside the
\* transaction; a throw aborts the request.
Deposit_requestWithdrawal_read(c) ==
    /\ c.pc = "wd_read"
    /\ calls' = IF InsufficientFunds(c.amount, wallet[c.user])
                THEN Finish(c)
                ELSE Replace(c, ReadWallet(c, "wd_write"))
    /\ UNCHANGED <<now, wallet, crashVars, gsRounds, withdrawalCooldowns, hist, aux>>

\* the pendingWithdrawal row and the WITHDRAWAL transaction that
\* requestWithdrawal creates, with the background task started for it
\* (waiting for the transfer) and the history of what was done for it
NewWithdrawal(userId, amount) ==
    [userId |-> userId, amount |-> amount, status |-> "processing", txStatus |-> "PENDING",
     processedAt |-> now, pc |-> "transfer", paid |-> 0, refunds |-> 0]

\* requestWithdrawal: update of the balance with the computed newBalance,
\* creation of the pendingWithdrawal and transaction rows, commit, and
\* runInBackground(processWithdrawalBackground).
Deposit_requestWithdrawal_write(c) ==
    /\ c.pc = "wd_write"
    /\ wallet' = [wallet EXCEPT ![c.user].balance = c.snapBalance - c.amount]
    /\ withdrawals' = [withdrawals EXCEPT !.rows = Append(@, NewWithdrawal(c.user, c.amount))]
    /\ calls' = Finish(c)
    /\ snapshots' = Snapshot(c.user, c.snapBalance - c.amount, "withdraw")
    /\ UNCHANGED <<now, crashVars, gsRounds, withdrawalCooldowns, hist,
                   events, shootout, fair, pots, deposits, jobs>>

LedgerNext ==
    \/ \E u \in LedgerClients, w \in Wagers, cp \in CrashPoints : GS_createCrash(u, w, cp)
    \/ \E c \in InFlight : TransactionService_create_read(c)
    \/ \E c \in InFlight : TransactionService_create_write(c)
    \/ \E c \in InFlight : GS_createCrash_resume(c)
    \/ \E r \in 1..MaxGsRounds, m \in CallerMultipliers : GS_cashoutCrash(r, m)
    \/ \E c \in InFlight : GS_cashoutCrash_update(c)
    \/ \E u \in LedgerClients, a \in Wagers : Route_walletWithdraw(u, a)
    \/ \E u \in LedgerClients, a \in Wagers : Deposit_requestWithdrawal(u, a)
    \/ \E c \in InFlight : Deposit_requestWithdrawal_check(c)
    \/ \E c \in InFlight : Deposit_requestWithdrawal_read(c)
    \/ \E c \in InFlight : Deposit_requestWithdrawal_write(c)

\* the betting window of a crash round: the round is created and bets are
\* placed on it, its timers have not fired yet
BettingNext ==
    \/ Route_getCurrentGame
    \/ Crash_createGame_register
    \/ \E g \in BetGames, u \in LedgerClients, w \in Wagers : Crash_placeBet(g, u, w)
    \/ \E c \in InFlight : Balance_placeBet_read(c)
    \/ \E c \in InFlight : Balance_placeBet_write(c)
    \/ \E c \in InFlight : Crash_placeBet_resume(c)
    \/ Tick

NextLedger == BettingNext \/ LedgerNext

\* the GameService, TransactionService and DepositService requests running
\* against the wallets while a crash round takes bets
SpecLedger == Init /\ [][NextLedger]_vars

\* the crash engine driven by the requests of a single player
NextOnePlayer ==
    \/ Route_getCurrentGame
    \/ Crash_createGame_register
    \/ \E g \in BetGames, u \in LedgerClients, w \in Wagers : Crash_placeBet(g, u, w)
    \/ \E c \in InFlight : Balance_placeBet_read(c)
    \/ \E c \in InFlight : Balance_placeBet_write(c)
    \/ \E c \in InFlight : Crash_placeBet_resume(c)
    \/ \E g \in GameIds : Crash_startGame(g)
    \/ \E g \in GameIds : Crash_startGame_resume(g)
    \/ \E g \in GameIds, u \in LedgerClients : Crash_cashout(g, u)
    \/ \E c \in InFlight : Balance_creditWinnings_read(c)
    \/ \E c \in InFlight : Balance_creditWinnings_write(c)
    \/ \E g \in GameIds : Crash_crashGame(g)
    \/ \E g \in GameIds : Balance_deductLoss_read(g)
    \/ \E g \in GameIds : Balance_deductLoss_write(g)
    \/ \E g \in GameIds : Crash_crashGame_next(g)
    \/ \E g \in GameIds : Crash_crashGame_finish(g)
    \/ \E g \in GameIds : Crash_deleteGame(g)
    \/ Tick

SpecOnePlayer == Init /\ [][NextOnePlayer]_vars

\* the clock under timely scheduling: the event loop runs a due timer
\* callback and the continuation of a completed database call of the game
\* loop before another TickMs milliseconds have passed
TickOnTime ==
    /\ timers # {}
    /\ \A t \in timers : ~TimerDue(t)
    /\ creating = EmptyBag
    /\ \A g \in GameIds : gameTask[g].pc = "none"
    /\ now' = now + 1
    /\ UNCHANGED <<wallet, activeGames, created, creating, timers, calls, gameTask,
                   gsRounds, withdrawalCooldowns, hist, aux>>

\* startGame and crashGame are methods of the exported service object: a
\* further invocation of either, besides the one made by the round's timer,
\* while no callback of the round is suspended
Call_startGame(g) ==
    /\ g <= created
    /\ gameTask[g].pc = "none"
    /\ startGame(g)
    /\ UNCHANGED <<gsRounds, withdrawalCooldowns, now, wallet, created, creating, timers, calls, hist, aux>>

Call_crashGame(g) ==
    /\ g <= created
    /\ gameTask[g].pc = "none"
    /\ crashGame(g)
    /\ UNCHANGED <<gsRounds, withdrawalCooldowns, now, wallet, created, creating, timers, calls, hist, aux>>

NextReinvoke ==
    \/ Route_getCurrentGame
    \/ Crash_createGame_register
    \/ \E g \in BetGames, u \in LedgerClients, w \in Wagers : Crash_placeBet(g, u, w)
    \/ \E c \in InFlight : Balance_placeBet_read(c)
    \/ \E c \in InFlight : Balance_placeBet_write(c)
    \/ \E c \in InFlight : Crash_placeBet_resume(c)
    \/ \E g \in GameIds : Crash_startGame(g)
    \/ \E g \in GameIds : Crash_startGame_resume(g)
    \/ \E g \in GameIds : Crash_crashGame(g)
    \/ \E g \in GameIds : Balance_deductLoss_read(g)
    \/ \E g \in GameIds : Balance_deductLoss_write(g)
    \/ \E g \in GameIds : Crash_crashGame_next(g)
    \/ \E g \in GameIds : Crash_crashGame_finish(g)
    \/ \E g \in GameIds : Crash_deleteGame(g)
    \/ TickOnTime
    \/ \E g \in BetGames : Call_startGame(g)
    \/ \E g \in BetGames : Call_crashGame(g)

\* the crash engine, with the bets of one player who never cashes out, under
\* repeated invocations of startGame and crashGame
SpecReinvoke == Init /\ [][NextReinvoke]_vars

\* the steps the server takes by itself: timer callbacks and continuations
ServerStep ==
    \/ Crash_createGame_register
    \/ \E g \in GameIds : Crash_startGame(g)
    \/ \E g \in GameIds : Crash_startGame_resume(g)
    \/ \E g \in GameIds : Crash_crashGame(g)
    \/ \E g \in GameIds : Balance_deductLoss_read(g)
    \/ \E g \in GameIds : Balance_deductLoss_write(g)
    \/ \E g \in GameIds : Crash_crashGame_next(g)
    \/ \E g \in GameIds : Crash_crashGame_finishUpTo(g, MaxGames)
    \/ \E g \in GameIds : Crash_deleteGame(g)

\* the requests of a player who bets and never cashes out
BetStep ==
    \/ Route_getCurrentGameUpTo(MaxGames)
    \/ \E g \in BetGames, u \in LedgerClients, w \in Wagers : Crash_placeBet(g, u, w)
    \/ \E c \in InFlight : Balance_placeBet_read(c)
    \/ \E c \in InFlight : Balance_placeBet_write(c)
    \/ \E c \in InFlight : Crash_placeBet_resume(c)

NextTimers == ServerStep \/ BetStep \/ TickOnTime

\* the crash engine under timely scheduling: every server step that stays
\* possible is taken, and the clock advances; no player action is required
SpecTimers ==
    /\ Init
    /\ [][NextTimers]_vars
    /\ WF_vars(ServerStep)
    /\ WF_vars(TickOnTime)

\* ------------------------------------------------- responses and broadcasts
\* a response or broadcast about a round: the phase of the round when it is
\* sent, and which of the round's secrets and commitments it carries
Event(round, g, kind, phase, hash, seed, cp) ==
    [round |-> round, game |-> g, kind |-> kind, phase |-> phase,
     serverSeedHash |-> hash, serverSeed |-> seed, crashPoint |-> cp]

\* getCurrentGame: the first waiting or running entry of activeGames (0: null)
CurrentGame ==
    LET live == {g \in GameIds : activeGames[g].status \in {"waiting", "running"}}
    IN IF live = {} THEN 0 ELSE CHOOSE g \in live : \A h \in live : g <= h

\* GET /api/games/crash with a current game: its id, status and
\* serverSeedHash are returned (the response of a GET that created the
\* round carries the same fields).
Route_currentGame ==
    /\ CurrentGame # 0
    /\ events' = events \cup
          {Event("crash", CurrentGame, "current", activeGames[CurrentGame].status,
                 TRUE, FALSE, FALSE)}
    /\ UNCHANGED <<now, wallet, activeGames, created, creating, timers, calls, gameTask,
                   gsRounds, withdrawalCooldowns, hist, shootout, fair, ext>>

\* a client has seen the id of crash round g in a response
KnowsGame(g) == \E e \in events : e.round = "crash" /\ e.game = g

\* GET /api/games/crash/[gameId]: GameService.getById returns the gameRound
\* row of the round with all its columns (serverSeed, serverSeedHash,
\* clientSeed, nonce) and its crashData (crashPoint), whatever its status.
Route_getGameById(g) ==
    /\ g <= created
    /\ KnowsGame(g)
    /\ events' = events \cup
          {Event("crash", g, "byId", activeGames[g].status, TRUE, TRUE, TRUE)}
    /\ UNCHANGED <<now, wallet, activeGames, created, creating, timers, calls, gameTask,
                   gsRounds, withdrawalCooldowns, hist, shootout, fair, ext>>

\* POST /api/games/crash action "bet" of a client that has learnt the id of
\* the round from a response
Client_placeBet(g, u, w) ==
    /\ KnowsGame(g)
    /\ Crash_placeBet(g, u, w)

\* ------------------------------------------------------------ shootout
COUNTDOWN_MS == 3000
SPIN_DURATION_MS == 2000
SHOOTOUT_CLEANUP_MS == 10000
HOUSE_RTP == 900        \* 0.9, in thousandths
PVP_RTP == 975          \* 0.975, in thousandths

ZeroPerUser == [u \in Users |-> 0]

\* the seeds createGameSession may draw for a shootout game
SessionSeeds == {<<1, 1>>, <<2, 1>>}

\* A shootout game: the gameRound row, its entry in waitingGames or
\* activeGames, the settleGame calls suspended at an await, and history
\* counters.  status is "created" (row written, in no map), "waiting" (in
\* waitingGames), "countdown" / "spinning" / "completed" (the status of
\* its activeGames entry), "cancelled" (deleted from waitingGames by
\* cancelGame) or "removed" (deleted from activeGames).  player2Id and
\* winnerId are "" for null; winnerId is "HOUSE" when the house wins.
NewShootoutGame(creatorId, wagerAmount, mode, serverSeed, clientSeed) ==
    [creatorId |-> creatorId, wagerAmount |-> wagerAmount, mode |-> mode,
     serverSeed |-> serverSeed, clientSeed |-> clientSeed,
     status |-> "created", player2Id |-> "", winnerId |-> "",
     tasks |-> <<>>,
     locks |-> [ZeroPerUser EXCEPT ![creatorId] = 1],
     joins |-> 0, cancels |-> 0, unlocks |-> 0, spins |-> 0, settles |-> 0,
     countdowns |-> 0,
     credits |-> ZeroPerUser, debits |-> ZeroPerUser]

ShootoutIds == 1..Len(shootout)

\* the createGame calls that have not written their row yet
ShootoutCreating ==
    {c \in InFlight : c.op \in {"shootoutCreate", "shootoutCreateHouse"} /\ c.game = 0}

\* ShootoutService.createGame (mode pvp) up to `await
\* BalanceService.placeBet`: the creator's funds are locked first, under a
\* temporary game id.
Shootout_createGameUpTo(u, w, cap) ==
    /\ BagCardinality(calls) < MaxCalls
    /\ Len(shootout) + Cardinality(ShootoutCreating) < cap
    /\ calls' = Suspend(Frame("shootoutCreate", 0, u, w, 0, "lock_read"))
    /\ UNCHANGED <<now, wallet, crashVars, gsRounds, withdrawalCooldowns, hist, aux>>

Shootout_createGame(u, w) == Shootout_createGameUpTo(u, w, MaxShootout)

\* ShootoutService.createGame with mode "house", up to the same await
Shootout_createHouseGame(u, w) ==
    /\ BagCardinality(calls) < MaxCalls
    /\ Len(shootout) + Cardinality(ShootoutCreating) < MaxShootout
    /\ calls' = Suspend(Frame("shootoutCreateHouse", 0, u, w, 0, "lock_read"))
    /\ UNCHANGED <<now, wallet, crashVars, gsRounds, withdrawalCooldowns, hist, aux>>

\* createGame after the lock succeeded: createGameSession() and
\* prisma.gameRound.create with status WAITING.
Shootout_createGame_session(c) ==
    /\ c.op \in {"shootoutCreate", "shootoutCreateHouse"} /\ c.pc = "lock_done"
    /\ \E sd \in SessionSeeds :
          shootout' = Append(shootout,
             NewShootoutGame(c.user, c.amount,
                             IF c.op = "shootoutCreate" THEN "pvp" ELSE "house",
                             sd[1], sd[2]))
    /\ calls' = Replace(c, [c EXCEPT !.pc = "so_created", !.game = Len(shootout) + 1])
    /\ UNCHANGED <<now, wallet, crashVars, gsRounds, withdrawalCooldowns, hist, events, fair, ext>>

\* createGame after the row was created: waitingGames.set and the
\* shootout_new_game broadcast (gameId, creatorWallet, wagerAmount).
Shootout_createGame_register(c) ==
    /\ c.op = "shootoutCreate" /\ c.pc = "so_created"
    /\ shootout' = [shootout EXCEPT ![c.game].status = "waiting"]
    /\ events' = events \cup
          {Event("shootout", c.game, "shootout_new_game", "waiting", FALSE, FALSE, FALSE)}
    /\ calls' = Finish(c)
    /\ UNCHANGED <<now, wallet, crashVars, gsRounds, withdrawalCooldowns, hist, fair, ext>>

NextObserved ==
    \/ Route_getCurrentGame
    \/ Crash_createGame_register
    \/ Route_currentGame
    \/ \E g \in BetGames : Route_getGameById(g)
    \/ \E g \in BetGames, u \in LedgerClients, w \in Wagers : Client_placeBet(g, u, w)
    \/ \E c \in InFlight : Balance_placeBet_read(c)
    \/ \E c \in InFlight : Balance_placeBet_write(c)
    \/ \E c \in InFlight : Crash_placeBet_resume(c)
    \/ \E g \in GameIds : Crash_startGame(g)
    \/ \E g \in GameIds : Crash_startGame_resume(g)
    \/ \E g \in GameIds : Crash_crashGame(g)
    \/ \E g \in GameIds : Balance_deductLoss_read(g)
    \/ \E g \in GameIds : Balance_deductLoss_write(g)
    \/ \E g \in GameIds : Crash_crashGame_next(g)
    \/ \E g \in GameIds : Crash_crashGame_finish(g)
    \/ \E g \in GameIds : Crash_deleteGame(g)
    \/ TickOnTime
    \/ \E u \in LedgerClients, w \in Wagers : Shootout_createGame(u, w)
    \/ \E c \in InFlight : Shootout_createGame_session(c)
    \/ \E c \in InFlight : Shootout_createGame_register(c)

\* a crash round and a shootout game as their clients observe them
SpecObserved == Init /\ [][NextObserved]_vars

\* ------------------------------------------------------- provably fair
\* Seeds and digests are numbers: a digest has HashBits + TailBits bits, a
\* house edge is in percent, a crash point in hundredths, a claimed crash
\* point in thousandths.
ServerSeeds == 1..MaxSeed
ClientSeeds == 1..MaxSeed
Nonces == 0..MaxNonce
HouseEdges == 1..99
Digests == 0..(2^(HashBits + TailBits) - 1)

\* claimed crash points, as their distance from the recomputed one. A
\* distance of exactly 0.01 is left out: whether the code's
\* `Math.abs(a - b) > 0.01` holds then depends on the binary rounding of a
\* and b.
Deviations == {-20, -5, 0, 5, 20}

HOUSE_EDGE == 5             \* CRASH_CONFIG.HOUSE_EDGE 0.05
CalcDefaultHouseEdge == 3   \* calculateCrashPoint's default houseEdge 0.03
VerifyDefaultHouseEdge == 5 \* verifyGame's default houseEdge 0.05
Tolerance == 10             \* verifyGame's tolerance 0.01

Abs(x) == IF x < 0 THEN -x ELSE x

\* hashSeed: SHA-256 of the seed, a fixed one-to-one scrambling here
hashSeed(seed) == (seed * 167 + 13) % 2^(HashBits + TailBits)

\* combineSeeds: HMAC-SHA-256 keyed by serverSeed of `${clientSeed}:${nonce}`
combineSeeds(serverSeed, clientSeed, nonce) ==
    ((serverSeed * 89 + 41) * (clientSeed * 57 + nonce * 101 + 29)) % 2^(HashBits + TailBits)

\* getCrashPointFromHash with the final value rounded to the nearest
\* hundredth instead of truncated
getCrashPointFromHash_rounded(hash, houseEdge) ==
    LET hashInt == hash \div 2^TailBits
        maxValue == 2^HashBits
        num == 10000 * maxValue * (100 - houseEdge)
        den == 100 * maxValue * (100 - houseEdge) - 99 * (100 * hashInt - maxValue * houseEdge)
    IN IF 100 * hashInt < maxValue * houseEdge THEN 100
       ELSE Max(100, (2 * num + den) \div (2 * den))

\* getCrashPointFromHash: hashInt is the leading HashBits bits of the digest;
\* instant crash (1.00) when hashInt < maxValue * houseEdge; otherwise
\* adjustedHash = (hashInt - maxValue*houseEdge) / (maxValue*(1 - houseEdge)),
\* crashPoint = 1 / (1 - adjustedHash * 0.99), and the result is
\* Math.max(1.0, Math.floor(crashPoint * 100) / 100). In hundredths, with the
\* quotient taken exactly:
\*   crashPoint * 100 = 10000*maxValue*(100-e) / (100*maxValue*(100-e) - 99*(100*hashInt - maxValue*e))
getCrashPointFromHash(hash, houseEdge) ==
    LET hashInt == hash \div 2^TailBits
        maxValue == 2^HashBits
        num == 10000 * maxValue * (100 - houseEdge)
        den == 100 * maxValue * (100 - houseEdge) - 99 * (100 * hashInt - maxValue * houseEdge)
    IN IF 100 * hashInt < maxValue * houseEdge THEN 100
       ELSE Max(100, num \div den)

calculateCrashPoint(serverSeed, clientSeed, nonce, houseEdge) ==
    getCrashPointFromHash(combineSeeds(serverSeed, clientSeed, nonce), houseEdge)

\* verifyGame(...).valid: the hash of the seed must be the committed hash and
\* the recomputed crash point within the tolerance of the claimed one
verifyGame(serverSeed, serverSeedHash, clientSeed, nonce, claimedCrashPoint, houseEdge) ==
    IF hashSeed(serverSeed) # serverSeedHash THEN FALSE
    ELSE ~(Abs(calculateCrashPoint(serverSeed, clientSeed, nonce, houseEdge) * 10
               - claimedCrashPoint) > Tolerance)

FairUnchanged ==
    UNCHANGED <<now, wallet, crashVars, calls, gsRounds, withdrawalCooldowns, hist,
                events, shootout, ext>>

\* CrashGameService.createGame: createGameSession() draws the two seeds,
\* commits to hashSeed(serverSeed), nonce 0; the crash point is computed
\* with CRASH_CONFIG.HOUSE_EDGE and kept with the session in the round.
Fair_createGame(serverSeed, clientSeed) ==
    /\ fair.pc = "none"
    /\ fair' = [NoSession EXCEPT
                   !.pc = "committed",
                   !.serverSeed = serverSeed,
                   !.serverSeedHash = hashSeed(serverSeed),
                   !.clientSeed = clientSeed,
                   !.nonce = 0,
                   !.houseEdge = HOUSE_EDGE,
                   !.crashPoint = calculateCrashPoint(serverSeed, clientSeed, 0, HOUSE_EDGE)]
    /\ FairUnchanged

\* crashGame: the crash_end broadcast carries game.crashPoint and the
\* session's serverSeed, serverSeedHash, clientSeed and nonce.
Fair_crashGame ==
    /\ fair.pc = "committed"
    /\ fair' = [fair EXCEPT !.pc = "revealed", !.claimed = fair.crashPoint * 10]
    /\ FairUnchanged

\* POST /api/games/crash/verify with the values of the crash_end broadcast:
\* verifyGame with its default houseEdge
Fair_verifyBroadcast ==
    /\ fair.pc = "revealed"
    /\ fair' = [fair EXCEPT
                   !.pc = "verified",
                   !.valid = verifyGame(fair.serverSeed, fair.serverSeedHash, fair.clientSeed,
                                        fair.nonce, fair.claimed, VerifyDefaultHouseEdge)]
    /\ FairUnchanged

\* verifyGame on any arguments
Fair_verifyGame(serverSeed, serverSeedHash, clientSeed, nonce, deviation, houseEdge) ==
    LET claimed == calculateCrashPoint(serverSeed, clientSeed, nonce, houseEdge) * 10 + deviation
    IN /\ fair.pc = "none"
       /\ fair' = [NoSession EXCEPT
                      !.pc = "checked",
                      !.serverSeed = serverSeed,
                      !.serverSeedHash = serverSeedHash,
                      !.clientSeed = clientSeed,
                      !.nonce = nonce,
                      !.houseEdge = houseEdge,
                      !.claimed = claimed,
                      !.valid = verifyGame(serverSeed, serverSeedHash, clientSeed, nonce,
                                           claimed, houseEdge)]
       /\ FairUnchanged

\* getCrashPointFromHash on any digest and house edge
Fair_getCrashPointFromHash(hash, houseEdge) ==
    /\ fair.pc = "none"
    /\ fair' = [NoSession EXCEPT
                   !.pc = "computed",
                   !.hash = hash,
                   !.houseEdge = houseEdge,
                   !.crashPoint = getCrashPointFromHash(hash, houseEdge)]
    /\ FairUnchanged

\* (the functions are applied once, to arguments drawn in the first step)
NextFair ==
    \/ \E s \in ServerSeeds, c \in ClientSeeds : Fair_createGame(s, c)
    \/ Fair_crashGame
    \/ Fair_verifyBroadcast
    \/ /\ fair = NoSession
       /\ \E s \in ServerSeeds, t \in ServerSeeds, c \in ClientSeeds, n \in Nonces,
             d \in Deviations, e \in HouseEdges :
               Fair_verifyGame(s, hashSeed(t), c, n, d, e)
    \/ /\ fair = NoSession
       /\ \E h \in Digests, e \in HouseEdges : Fair_getCrashPointFromHash(h, e)

\* the provably-fair functions on seeds, digests and house edges
SpecFair == Init /\ [][NextFair]_vars

\* ------------------------------------------------- shootout state machine
ShootoutWagers == {20}

\* the variables no ShootoutService step touches
soRest == <<activeGames, created, creating, gameTask, gsRounds, withdrawalCooldowns, hist, fair, ext>>

\* a pending setTimeout of ShootoutService: n tells apart callbacks
\* scheduled for the same game and time, player1Wins is the argument bound
\* by the settleGame callback
ShootoutTimer(kind, g, delay, n, player1Wins) ==
    [kind |-> kind, game |-> g, due |-> now * TickMs + delay, n |-> n,
     player1Wins |-> player1Wins]

Rejections == {e \in events : e.kind \in {"join_error", "cancel_error"}}

\* createGame, mode house, after the row was created: startHouseGame puts
\* the game into activeGames with status countdown and awaits the update of
\* the row.
Shootout_startHouseGame(c) ==
    /\ c.op = "shootoutCreateHouse" /\ c.pc = "so_created"
    /\ shootout' = [shootout EXCEPT ![c.game].status = "countdown",
                                    ![c.game].countdowns = @ + 1]
    /\ calls' = Replace(c, [c EXCEPT !.pc = "house_db"])
    /\ UNCHANGED <<soRest, now, wallet, timers, events>>

\* startHouseGame after the update: shootout_countdown broadcast and the
\* startSpin timer.
Shootout_startHouseGame_resume(c) ==
    /\ c.op = "shootoutCreateHouse" /\ c.pc = "house_db"
    /\ timers' = timers \cup {ShootoutTimer("spin", c.game, COUNTDOWN_MS, 0, FALSE)}
    /\ calls' = Finish(c)
    /\ UNCHANGED <<soRest, now, wallet, shootout, events>>

\* joinGame: `!waitingGame` and `waitingGame.creatorId === joinerId` return
\* an error
CannotJoin(status, creatorId, joinerId) == status # "waiting" \/ creatorId = joinerId

\* ShootoutService.joinGame up to `await BalanceService.placeBet`.
Shootout_joinGame(g, u) ==
    LET game == shootout[g] IN
    /\ BagCardinality(calls) < MaxCalls
    /\ IF CannotJoin(game.status, game.creatorId, u)
       THEN /\ Cardinality(Rejections) < MaxRejects
            /\ events' = events \cup
                  {Event("shootout", g, "join_error", game.status, FALSE, FALSE, FALSE)}
            /\ UNCHANGED calls
       ELSE /\ calls' = Suspend(Frame("shootoutJoin", g, u, game.wagerAmount, 0, "lock_read"))
            /\ UNCHANGED events
    /\ UNCHANGED <<soRest, now, wallet, timers, shootout>>

\* joinGame after the lock succeeded: waitingGames.delete, activeGames.set
\* of a new ActiveGame (status countdown, player2Id the joiner, winnerId
\* null), then the updates of the rows are awaited.
Shootout_joinGame_resume(c) ==
    /\ c.op = "shootoutJoin" /\ c.pc = "lock_done"
    /\ shootout' = [shootout EXCEPT ![c.game].status = "countdown",
                                    ![c.game].player2Id = c.user,
                                    ![c.game].winnerId = "",
                                    ![c.game].countdowns = @ + 1]
    /\ calls' = Replace(c, [c EXCEPT !.pc = "join_db"])
    /\ UNCHANGED <<soRest, now, wallet, timers, events>>

\* joinGame after the updates: shootout_countdown broadcast, the startSpin
\* timer, and the success response.
Shootout_joinGame_finish(c) ==
    /\ c.op = "shootoutJoin" /\ c.pc = "join_db"
    /\ timers' = timers \cup
          {ShootoutTimer("spin", c.game, COUNTDOWN_MS, shootout[c.game].joins + 1, FALSE)}
    /\ shootout' = [shootout EXCEPT ![c.game].joins = @ + 1]
    /\ calls' = Finish(c)
    /\ UNCHANGED <<soRest, now, wallet, events>>

\* the guard of cancelGame without its creator test
CannotCancel_noCreatorTest(status, creatorId, userId) == status # "waiting"

\* cancelGame: `!waitingGame` and `waitingGame.creatorId !== userId` return
\* an error
CannotCancel(status, creatorId, userId) == status # "waiting" \/ creatorId # userId

\* ShootoutService.cancelGame up to `await BalanceService.unlockFromGame`.
Shootout_cancelGame(g, u) ==
    LET game == shootout[g] IN
    /\ BagCardinality(calls) < MaxCalls
    /\ IF CannotCancel(game.status, game.creatorId, u)
       THEN /\ Cardinality(Rejections) < MaxRejects
            /\ events' = events \cup
                  {Event("shootout", g, "cancel_error", game.status, FALSE, FALSE, FALSE)}
            /\ UNCHANGED calls
       ELSE /\ calls' = Suspend(Frame("shootoutCancel", g, u, game.wagerAmount, 0,
                                      "unlock_read"))
            /\ UNCHANGED events
    /\ UNCHANGED <<soRest, now, wallet, timers, shootout>>

\* BalanceService.unlockFromGame: findFirst inside the transaction.
Balance_unlockFromGame_read(c) ==
    /\ c.pc = "unlock_read"
    /\ calls' = Replace(c, ReadWallet(c, "unlock_write"))
    /\ UNCHANGED <<soRest, now, wallet, timers, shootout, events>>

\* BalanceService.unlockFromGame: pendingBalance is set to
\* Math.max(0, wallet.pendingBalance - amount) and the transaction commits.
Balance_unlockFromGame_write(c) ==
    /\ c.pc = "unlock_write"
    /\ wallet' = [wallet EXCEPT ![c.user].pendingBalance = Max(0, c.snapPending - c.amount)]
    /\ shootout' = [shootout EXCEPT ![c.game].unlocks = @ + 1]
    /\ calls' = Replace(c, [c EXCEPT !.pc = "cancel_db"])
    /\ UNCHANGED <<soRest, now, timers, events>>

\* cancelGame after the row was set to CANCELLED: waitingGames.delete, the
\* shootout_cancelled broadcast and the success response.
Shootout_cancelGame_finish(c) ==
    /\ c.op = "shootoutCancel" /\ c.pc = "cancel_db"
    /\ shootout' = [shootout EXCEPT
           ![c.game].status = IF @ = "waiting" THEN "cancelled" ELSE @,
           ![c.game].cancels = @ + 1]
    /\ calls' = Finish(c)
    /\ UNCHANGED <<soRest, now, wallet, timers, events>>

\* startSpin: hashInt is the leading 32 bits of the combined hash (SpinBits
\* here), normalized = hashInt / 0xffffffff; player 1 wins when normalized
\* is below HOUSE_RTP in house mode and below 0.5 in PvP.
Player1Wins(hash, isHouse) ==
    LET hashInt == hash \div 2^(HashBits + TailBits - SpinBits)
        maxInt == 2^SpinBits - 1
    IN IF isHouse THEN hashInt * 1000 < HOUSE_RTP * maxInt
       ELSE hashInt * 2 < maxInt

\* startSpin: `!game || game.status !== "countdown"` returns
CannotSpin(status) == status # "countdown"

\* the startSpin timer fires
Shootout_startSpin(g) ==
    \E t \in timers :
        /\ t.kind = "spin" /\ t.game = g /\ TimerDue(t)
        /\ LET game == shootout[g]
               player1Wins == Player1Wins(combineSeeds(game.serverSeed, game.clientSeed, 0),
                                          game.player2Id = "")
               winnerId == IF player1Wins THEN game.creatorId
                           ELSE IF game.player2Id # "" THEN game.player2Id ELSE "HOUSE"
           IN IF CannotSpin(game.status)
              THEN /\ timers' = timers \ {t}
                   /\ UNCHANGED shootout
              ELSE /\ shootout' = [shootout EXCEPT ![g].status = "spinning",
                                                   ![g].winnerId = winnerId,
                                                   ![g].spins = @ + 1]
                   /\ timers' = (timers \ {t}) \cup
                        {ShootoutTimer("settle", g, SPIN_DURATION_MS, game.spins + 1,
                                       player1Wins)}
        /\ UNCHANGED <<soRest, now, wallet, calls, events>>

\* settleGame: `!game || game.status !== "spinning"` returns
CannotSettle(status) == status # "spinning"

\* settleGame up to its first await: status completed; rake = totalPot *
\* (1 - rtp), winnerPayout = totalPot - rake (exact for the wagers of the
\* model); winnerId and loserId are read from the game; the first await is
\* creditWinnings when there is a winnerId, deductLoss otherwise.
SettleTask(game, player1Wins) ==
    LET isHouseMode == game.player2Id = ""
        rtp == IF isHouseMode THEN HOUSE_RTP ELSE PVP_RTP
        totalPot == game.wagerAmount * 2
        rake == (totalPot * (1000 - rtp)) \div 1000
        winnerPayout == totalPot - rake
        winnerId == IF player1Wins THEN game.creatorId ELSE game.player2Id
        loserId == IF player1Wins THEN game.player2Id ELSE game.creatorId
    IN [pc |-> IF winnerId # "" THEN "credit_read" ELSE "loss_read",
        winnerId |-> winnerId, loserId |-> loserId,
        amount |-> game.wagerAmount, payout |-> winnerPayout, rake |-> rake,
        snapBalance |-> 0, snapPending |-> 0]

\* the settleGame timer fires
Shootout_settleGame(g) ==
    \E t \in timers :
        /\ t.kind = "settle" /\ t.game = g /\ TimerDue(t)
        /\ timers' = timers \ {t}
        /\ IF CannotSettle(shootout[g].status)
           THEN UNCHANGED shootout
           ELSE shootout' = [shootout EXCEPT
                   ![g].status = "completed",
                   ![g].settles = @ + 1,
                   ![g].tasks = Append(@, SettleTask(shootout[g], t.player1Wins))]
        /\ UNCHANGED <<soRest, now, wallet, calls, events>>

\* settleGame: BalanceService.creditWinnings, findFirst inside the transaction
Shootout_creditWinnings_read(g, i) ==
    LET task == shootout[g].tasks[i] IN
    /\ task.pc = "credit_read"
    /\ shootout' = [shootout EXCEPT ![g].tasks[i] =
           [task EXCEPT !.pc = "credit_write",
                        !.snapBalance = wallet[task.winnerId].balance,
                        !.snapPending = wallet[task.winnerId].pendingBalance]]
    /\ UNCHANGED <<soRest, now, wallet, timers, calls, events>>

\* settleGame: creditWinnings writes balance + (winnings - wager) and
\* Math.max(0, pendingBalance - wager) and commits; deductLoss follows when
\* there is a loserId.
Shootout_creditWinnings_write(g, i) ==
    LET task == shootout[g].tasks[i] IN
    /\ task.pc = "credit_write"
    /\ wallet' = [wallet EXCEPT
           ![task.winnerId].balance = task.snapBalance + (task.payout - task.amount),
           ![task.winnerId].pendingBalance = Max(0, task.snapPending - task.amount)]
    /\ shootout' = [shootout EXCEPT
           ![g].credits[task.winnerId] = @ + 1,
           ![g].tasks[i].pc = IF task.loserId # "" THEN "loss_read" ELSE "finalize"]
    /\ jobs' = IF task.payout - task.amount > 0
               THEN jobs (+) SetToBag({TransferJob("winnings", task.winnerId,
                                                   task.payout - task.amount)})
               ELSE jobs
    /\ snapshots' = Snapshot(task.winnerId, task.snapBalance + (task.payout - task.amount),
                             "game_win")
    /\ UNCHANGED <<activeGames, created, creating, gameTask, gsRounds, withdrawalCooldowns,
                   hist, fair, pots, deposits, withdrawals, now, timers, calls, events>>

\* settleGame: BalanceService.deductLoss, findFirst inside the transaction
Shootout_deductLoss_read(g, i) ==
    LET task == shootout[g].tasks[i] IN
    /\ task.pc = "loss_read"
    /\ shootout' = [shootout EXCEPT ![g].tasks[i] =
           [task EXCEPT !.pc = "loss_write",
                        !.snapBalance = wallet[task.loserId].balance,
                        !.snapPending = wallet[task.loserId].pendingBalance]]
    /\ UNCHANGED <<soRest, now, wallet, timers, calls, events>>

\* settleGame: deductLoss writes balance - wager and
\* Math.max(0, pendingBalance - wager) and commits.
Shootout_deductLoss_write(g, i) ==
    LET task == shootout[g].tasks[i] IN
    /\ task.pc = "loss_write"
    /\ wallet' = [wallet EXCEPT
           ![task.loserId].balance = task.snapBalance - task.amount,
           ![task.loserId].pendingBalance = Max(0, task.snapPending - task.amount)]
    /\ shootout' = [shootout EXCEPT
           ![g].debits[task.loserId] = @ + 1,
           ![g].tasks[i].pc = "finalize"]
    /\ snapshots' = Snapshot(task.loserId, task.snapBalance - task.amount, "game_loss")
    /\ UNCHANGED <<activeGames, created, creating, gameTask, gsRounds, withdrawalCooldowns,
                   hist, fair, pots, deposits, withdrawals, jobs, now, timers, calls, events>>

\* drop element i of a sequence
RemoveAt(seq, i) == SubSeq(seq, 1, i - 1) \o SubSeq(seq, i + 1, Len(seq))

\* settleGame after the rows were updated: the shootout_result broadcast with
\* the revealed seed, and the cleanup timer.
Shootout_settleGame_finish(g, i) ==
    /\ shootout[g].tasks[i].pc = "finalize"
    /\ events' = events \cup
          {Event("shootout", g, "shootout_result", shootout[g].status, TRUE, TRUE, FALSE)}
    /\ timers' = timers \cup
          {ShootoutTimer("so_delete", g, SHOOTOUT_CLEANUP_MS, shootout[g].settles, FALSE)}
    /\ shootout' = [shootout EXCEPT ![g].tasks = RemoveAt(@, i)]
    /\ UNCHANGED <<soRest, now, wallet, calls>>

\* the cleanup timer of settleGame fires: activeGames.delete(gameId)
Shootout_deleteGame(g) ==
    \E t \in timers :
        /\ t.kind = "so_delete" /\ t.game = g /\ TimerDue(t)
        /\ timers' = timers \ {t}
        /\ shootout' = [shootout EXCEPT ![g].status =
               IF @ \in {"countdown", "spinning", "completed"} THEN "removed" ELSE @]
        /\ UNCHANGED <<soRest, now, wallet, calls, events>>

\* the clock under timely scheduling: no due timer and no settleGame call
\* awaiting the database is passed by
Shootout_tick ==
    /\ \A g \in ShootoutIds : shootout[g].tasks = <<>>
    /\ TickOnTime

\* the settleGame calls suspended at an await
ShootoutTasks == {<<g, i>> \in ShootoutIds \X (1..2) : i <= Len(shootout[g].tasks)}

\* no shootout game has been created or is being created
NoGameYet == Len(shootout) = 0 /\ ShootoutCreating = {}

NextShootout ==
    \/ \E u \in LedgerClients, w \in ShootoutWagers : NoGameYet /\ Shootout_createGame(u, w)
    \/ \E u \in LedgerClients, w \in ShootoutWagers :
          NoGameYet /\ Shootout_createHouseGame(u, w)
    \/ \E c \in InFlight : Balance_placeBet_read(c)
    \/ \E c \in InFlight : Balance_placeBet_write(c)
    \/ \E c \in InFlight : Shootout_createGame_session(c)
    \/ \E c \in InFlight : Shootout_createGame_register(c)
    \/ \E c \in InFlight : Shootout_startHouseGame(c)
    \/ \E c \in InFlight : Shootout_startHouseGame_resume(c)
    \/ \E g \in ShootoutIds, u \in Users : Shootout_joinGame(g, u)
    \/ \E c \in InFlight : Shootout_joinGame_resume(c)
    \/ \E c \in InFlight : Shootout_joinGame_finish(c)
    \/ \E g \in ShootoutIds, u \in Users : Shootout_cancelGame(g, u)
    \/ \E c \in InFlight : Balance_unlockFromGame_read(c)
    \/ \E c \in InFlight : Balance_unlockFromGame_write(c)
    \/ \E c \in InFlight : Shootout_cancelGame_finish(c)
    \/ \E g \in ShootoutIds : Shootout_startSpin(g)
    \/ \E g \in ShootoutIds : Shootout_settleGame(g)
    \/ \E t \in ShootoutTasks : Shootout_creditWinnings_read(t[1], t[2])
    \/ \E t \in ShootoutTasks : Shootout_creditWinnings_write(t[1], t[2])
    \/ \E t \in ShootoutTasks : Shootout_deductLoss_read(t[1], t[2])
    \/ \E t \in ShootoutTasks : Shootout_deductLoss_write(t[1], t[2])
    \/ \E t \in ShootoutTasks : Shootout_settleGame_finish(t[1], t[2])
    \/ \E g \in ShootoutIds : Shootout_deleteGame(g)
    \/ Shootout_tick

\* one game of ShootoutService: one creator, joiners and cancellers among
\* all users
SpecShootout == Init /\ [][NextShootout]_vars

NextLobby ==
    \/ \E u \in LedgerClients, w \in ShootoutWagers :
          Shootout_createGameUpTo(u, w, MaxLobbyGames)
    \/ \E c \in InFlight : Balance_placeBet_read(c)
    \/ \E c \in InFlight : Balance_placeBet_write(c)
    \/ \E c \in InFlight : Shootout_createGame_session(c)
    \/ \E c \in InFlight : Shootout_createGame_register(c)
    \/ \E g \in ShootoutIds, u \in Users : Shootout_cancelGame(g, u)
    \/ \E c \in InFlight : Balance_unlockFromGame_read(c)
    \/ \E c \in InFlight : Balance_unlockFromGame_write(c)
    \/ \E c \in InFlight : Shootout_cancelGame_finish(c)

SpecLobby == Init /\ [][NextLobby]_vars

\* A creator opening games with wagers that do not all fit the balance:
\* the locks of createGame, some taken and some rejected.
NextLock ==
    \/ \E u \in LedgerClients, w \in ShootoutWagers \cup Wagers :
          Shootout_createGameUpTo(u, w, MaxLobbyGames)
    \/ \E c \in InFlight : Balance_placeBet_read(c)
    \/ \E c \in InFlight : Balance_placeBet_write(c)
    \/ \E c \in InFlight : Shootout_createGame_session(c)
    \/ \E c \in InFlight : Shootout_createGame_register(c)

SpecLock == Init /\ [][NextLock]_vars

\* The wagers of a betting window: bets on the crash round, one shootout
\* game created and joined; no timer fires and nothing is settled.
NextWager ==
    \/ Route_getCurrentGame
    \/ Crash_createGame_register
    \/ \E g \in BetGames, u \in LedgerClients, w \in Wagers : Crash_placeBet(g, u, w)
    \/ \E c \in InFlight : Crash_placeBet_resume(c)
    \/ \E u \in LedgerClients, w \in ShootoutWagers \cup Wagers :
          NoGameYet /\ Shootout_createGame(u, w)
    \/ \E c \in InFlight : Balance_placeBet_read(c)
    \/ \E c \in InFlight : Balance_placeBet_write(c)
    \/ \E c \in InFlight : Shootout_createGame_session(c)
    \/ \E c \in InFlight : Shootout_createGame_register(c)
    \/ \E g \in ShootoutIds, u \in Users : Shootout_joinGame(g, u)
    \/ \E c \in InFlight : Shootout_joinGame_resume(c)
    \/ \E c \in InFlight : Shootout_joinGame_finish(c)

SpecWager == Init /\ [][NextWager]_vars

\* ------------------------------------------------- background token transfers
Replaced(bag, old, new) == (bag (-) SetToBag({old})) (+) SetToBag({new})

\* transferBetToGameMaster / transferWinningsToUser: the transfer resolves
\* and the signature is logged
Balance_transfer_complete(j) ==
    /\ j.pc = "transfer"
    /\ jobs' = Replaced(jobs, j, [j EXCEPT !.pc = "complete"])
    /\ UNCHANGED <<now, wallet, crashVars, calls, gsRounds, withdrawalCooldowns, hist,
                   events, shootout, fair, pots, deposits, withdrawals, snapshots>>

\* a failing transfer that releases the amount it was started for
Balance_transfer_fails_reverting(j) ==
    /\ j.pc = "transfer"
    /\ jobs' = Replaced(jobs, j, [j EXCEPT !.pc = "logged"])
    /\ wallet' = [wallet EXCEPT ![j.userId].pendingBalance = Max(0, @ - j.amount)]
    /\ UNCHANGED <<now, crashVars, calls, gsRounds, withdrawalCooldowns, hist,
                   events, shootout, fair, pots, deposits, withdrawals, snapshots>>

\* transferBetToGameMaster / transferWinningsToUser: no keypair, or the
\* transfer rejects: console.error, and the task returns
Balance_transfer_fails(j) ==
    /\ j.pc = "transfer"
    /\ jobs' = Replaced(jobs, j, [j EXCEPT !.pc = "logged"])
    /\ UNCHANGED <<now, wallet, crashVars, calls, gsRounds, withdrawalCooldowns, hist,
                   events, shootout, fair, pots, deposits, withdrawals, snapshots>>

NextSettlement ==
    \/ \E u \in LedgerClients, w \in ShootoutWagers :
          NoGameYet /\ Shootout_createHouseGame(u, w)
    \/ \E c \in InFlight : Balance_placeBet_read(c)
    \/ \E c \in InFlight : Balance_placeBet_write(c)
    \/ \E c \in InFlight : Shootout_createGame_session(c)
    \/ \E c \in InFlight : Shootout_startHouseGame(c)
    \/ \E c \in InFlight : Shootout_startHouseGame_resume(c)
    \/ \E g \in ShootoutIds : Shootout_startSpin(g)
    \/ \E g \in ShootoutIds : Shootout_settleGame(g)
    \/ \E t \in ShootoutTasks : Shootout_creditWinnings_read(t[1], t[2])
    \/ \E t \in ShootoutTasks : Shootout_creditWinnings_write(t[1], t[2])
    \/ \E t \in ShootoutTasks : Shootout_deductLoss_read(t[1], t[2])
    \/ \E t \in ShootoutTasks : Shootout_deductLoss_write(t[1], t[2])
    \/ \E t \in ShootoutTasks : Shootout_settleGame_finish(t[1], t[2])
    \/ \E g \in ShootoutIds : Shootout_deleteGame(g)
    \/ Shootout_tick
    \/ \E j \in BagToSet(jobs) : Balance_transfer_complete(j)
    \/ \E j \in BagToSet(jobs) : Balance_transfer_fails(j)

\* a house-mode shootout game with the background transfers of its bet and
\* its winnings
SpecSettlement == Init /\ [][NextSettlement]_vars

\* ----------------------------------------------------- withdrawal processor
STUCK_AFTER_MS == 600000

WithdrawalIds == 1..Len(withdrawals.rows)

wdRest == <<crashVars, calls, gsRounds, withdrawalCooldowns, hist, events, shootout, fair,
            pots, jobs, snapshots, deposits>>

\* transaction.updateMany where {userId, type WITHDRAWAL, status PENDING}
MarkPendingTransactions(rows, userId, status) ==
    [k \in DOMAIN rows |->
        IF rows[k].userId = userId /\ rows[k].txStatus = "PENDING"
        THEN [rows[k] EXCEPT !.txStatus = status] ELSE rows[k]]

\* the refund transaction of processWithdrawalBackground's catch block and
\* of the admin route: balance increment, row failed, updateMany FAILED
RefundWithdrawal(rows, i, pc) ==
    MarkPendingTransactions(
        [rows EXCEPT ![i].status = "failed", ![i].refunds = @ + 1, ![i].pc = pc],
        rows[i].userId, "FAILED")

\* processWithdrawalBackground: SolanaService.transferFromGameMaster returns
Withdrawal_transferDone(i) ==
    /\ withdrawals.rows[i].pc = "transfer"
    /\ withdrawals' = [withdrawals EXCEPT !.rows[i].paid = @ + 1,
                                          !.rows[i].pc = "confirm"]
    /\ UNCHANGED <<now, wallet, wdRest>>

\* processWithdrawalBackground: SolanaService.transferFromGameMaster throws
Withdrawal_transferFails(i) ==
    /\ withdrawals.rows[i].pc = "transfer"
    /\ withdrawals' = [withdrawals EXCEPT !.rows[i].pc = "refund"]
    /\ UNCHANGED <<now, wallet, wdRest>>

\* processWithdrawalBackground: pendingWithdrawal.update to confirmed
Withdrawal_confirm(i) ==
    /\ withdrawals.rows[i].pc = "confirm"
    /\ withdrawals' = [withdrawals EXCEPT !.rows[i].status = "confirmed",
                                          !.rows[i].pc = "confirm_tx"]
    /\ UNCHANGED <<now, wallet, wdRest>>

\* processWithdrawalBackground: transaction.updateMany to CONFIRMED
Withdrawal_confirmTransactions(i) ==
    /\ withdrawals.rows[i].pc = "confirm_tx"
    /\ withdrawals' = [withdrawals EXCEPT !.rows =
           MarkPendingTransactions([@ EXCEPT ![i].pc = "done"],
                                   withdrawals.rows[i].userId, "CONFIRMED")]
    /\ UNCHANGED <<now, wallet, wdRest>>

\* processWithdrawalBackground: the catch block's transaction commits
Withdrawal_refund(i) ==
    LET row == withdrawals.rows[i] IN
    /\ row.pc = "refund"
    /\ wallet' = [wallet EXCEPT ![row.userId].balance = @ + row.amount]
    /\ withdrawals' = [withdrawals EXCEPT !.rows = RefundWithdrawal(@, i, "done")]
    /\ UNCHANGED <<now, wdRest>>

\* admin route POST: `processing` rows with processedAt before ten minutes ago
StuckWithdrawals ==
    {i \in WithdrawalIds :
        /\ withdrawals.rows[i].status = "processing"
        /\ withdrawals.rows[i].processedAt * TickMs < now * TickMs - STUCK_AFTER_MS}

\* the elements of a set of row ids in ascending order
RECURSIVE InOrder(_)
InOrder(ids) ==
    IF ids = {} THEN <<>>
    ELSE LET least == CHOOSE i \in ids : \A j \in ids : i <= j
         IN <<least>> \o InOrder(ids \ {least})

\* admin route POST up to the first refund transaction: findMany
Admin_processWithdrawals ==
    /\ Len(withdrawals.admin) < MaxAdminCalls
    /\ StuckWithdrawals # {}
    /\ withdrawals' = [withdrawals EXCEPT !.admin = Append(@, InOrder(StuckWithdrawals))]
    /\ UNCHANGED <<now, wallet, wdRest>>

\* admin route POST: the refund transaction of the next stuck withdrawal
\* commits; after the last one the request returns.
Admin_refund(k) ==
    LET stuck == withdrawals.admin[k]
        i == Head(stuck)
        row == withdrawals.rows[i]
    IN /\ wallet' = [wallet EXCEPT ![row.userId].balance = @ + row.amount]
       /\ withdrawals' =
             [rows |-> RefundWithdrawal(withdrawals.rows, i, row.pc),
              admin |-> IF Len(stuck) = 1 THEN RemoveAt(withdrawals.admin, k)
                        ELSE [withdrawals.admin EXCEPT ![k] = Tail(stuck)]]
       /\ UNCHANGED <<now, wdRest>>

\* the clock of the withdrawal processor
Withdrawal_tick ==
    /\ now < MaxStuckTicks
    /\ calls = EmptyBag
    /\ now' = now + 1
    /\ UNCHANGED <<wallet, withdrawals, wdRest>>

WithdrawalsRequested ==
    Len(withdrawals.rows)
    + Cardinality({c \in InFlight : c.op = "requestWithdrawal"})

NextWithdrawal ==
    \/ /\ WithdrawalsRequested < MaxWithdrawals
       /\ \E u \in LedgerClients, a \in Wagers : Deposit_requestWithdrawal(u, a)
    \/ \E c \in InFlight : Deposit_requestWithdrawal_check(c)
    \/ \E c \in InFlight : Deposit_requestWithdrawal_read(c)
    \/ \E c \in InFlight : Deposit_requestWithdrawal_write(c)
    \/ \E i \in WithdrawalIds : Withdrawal_transferDone(i)
    \/ \E i \in WithdrawalIds : Withdrawal_transferFails(i)
    \/ \E i \in WithdrawalIds : Withdrawal_confirm(i)
    \/ \E i \in WithdrawalIds : Withdrawal_confirmTransactions(i)
    \/ \E i \in WithdrawalIds : Withdrawal_refund(i)
    \/ Admin_processWithdrawals
    \/ \E k \in 1..Len(withdrawals.admin) : Admin_refund(k)
    \/ Withdrawal_tick

\* withdrawal requests, their background processing and the admin refund
SpecWithdrawal == Init /\ [][NextWithdrawal]_vars

\* ------------------------------------------------------------- deposits
depRest == <<now, crashVars, calls, gsRounds, withdrawalCooldowns, hist, events, shootout,
             fair, pots, withdrawals, jobs>>

\* a processDeposit call ("call") or a processDepositBackground task
\* ("background") with its position, the status its transaction found and
\* the balance its transaction read
DepositTask(kind, userId, sig, pc) ==
    [kind |-> kind, userId |-> userId, sig |-> sig, pc |-> pc, saw |-> "none",
     snapBalance |-> 0]

DepositTasks == 1..Len(deposits.tasks)

DepositCalls == {k \in DepositTasks : deposits.tasks[k].kind = "call"}

\* DepositService.processDeposit(userId, txSignature) up to `await
\* prisma.pendingDeposit.findUnique`
Deposit_processDeposit(u, sig) ==
    /\ Cardinality(DepositCalls) < MaxDeposits
    /\ deposits' = [deposits EXCEPT !.tasks = Append(@, DepositTask("call", u, sig, "find"))]
    /\ UNCHANGED <<wallet, snapshots, depRest>>

\* processDeposit: a signature found confirmed is rejected ("Deposit already
\* processed"); otherwise the wallet is fetched and the validation awaited
Deposit_processDeposit_find(k) ==
    LET t == deposits.tasks[k] IN
    /\ t.kind = "call" /\ t.pc = "find"
    /\ deposits' = [deposits EXCEPT !.tasks[k].pc =
           IF deposits.rows[t.sig].status = "confirmed" THEN "rejected" ELSE "validate"]
    /\ UNCHANGED <<wallet, snapshots, depRest>>

\* processDeposit after Promise.race([validateDeposit, 5 s timeout]): on a
\* timeout the row is upserted as pending (update: {} leaves an existing
\* row alone) and processDepositBackground is started; an invalid
\* transfer is refused; a valid one opens the crediting transaction
Deposit_processDeposit_validate(k, outcome) ==
    LET t == deposits.tasks[k] IN
    /\ t.kind = "call" /\ t.pc = "validate"
    /\ CASE outcome = "timeout" ->
             /\ deposits.rows[t.sig].lockedBy = 0
             /\ deposits' =
                  [deposits EXCEPT
                     !.rows[t.sig].status = IF @ = "none" THEN "pending" ELSE @,
                     !.tasks = Append([@ EXCEPT ![k].pc = "pending"],
                                      DepositTask("background", t.userId, t.sig, "validate"))]
         [] outcome = "invalid" ->
             deposits' = [deposits EXCEPT !.tasks[k].pc = "invalid"]
         [] OTHER ->
             deposits' = [deposits EXCEPT !.tasks[k].pc = "tx_find"]
    /\ UNCHANGED <<wallet, snapshots, depRest>>

\* processDepositBackground after `await SolanaService.validateDeposit`: an
\* invalid transfer sets the row to failed, a throw is logged, a valid
\* transfer opens the crediting transaction
Deposit_processDepositBackground(k, outcome) ==
    LET t == deposits.tasks[k] IN
    /\ t.kind = "background" /\ t.pc = "validate"
    /\ CASE outcome = "invalid" ->
             /\ deposits.rows[t.sig].lockedBy = 0
             /\ deposits' = [deposits EXCEPT !.rows[t.sig].status = "failed",
                                             !.tasks[k].pc = "failed"]
         [] outcome = "timeout" ->
             deposits' = [deposits EXCEPT !.tasks[k].pc = "logged"]
         [] OTHER ->
             deposits' = [deposits EXCEPT !.tasks[k].pc = "tx_find"]
    /\ UNCHANGED <<wallet, snapshots, depRest>>

\* the crediting transaction of processDeposit and processDepositBackground:
\* tx.pendingDeposit.findUnique and the test for status confirmed
Deposit_credit_find(k) ==
    LET t == deposits.tasks[k] IN
    /\ t.pc = "tx_find"
    /\ deposits' = [deposits EXCEPT
           !.tasks[k].saw = deposits.rows[t.sig].status,
           !.tasks[k].pc = IF deposits.rows[t.sig].status = "confirmed"
                           THEN "rejected" ELSE "tx_upsert"]
    /\ UNCHANGED <<wallet, snapshots, depRest>>

\* the crediting transaction: tx.pendingDeposit.upsert / update to
\* confirmed, which waits while another open transaction has written the
\* row, and tx.custodialWallet.findUnique
Deposit_credit_upsert(k) ==
    LET t == deposits.tasks[k] IN
    /\ t.pc = "tx_upsert"
    /\ deposits.rows[t.sig].lockedBy = 0
    /\ deposits' = [deposits EXCEPT !.rows[t.sig].lockedBy = k,
                                    !.tasks[k].snapBalance = wallet[t.userId].balance,
                                    !.tasks[k].pc = "tx_write"]
    /\ UNCHANGED <<wallet, snapshots, depRest>>

\* the crediting transaction: an upsert that found no row and inserts
\* while another open transaction has inserted the same signature fails on
\* the unique key when it is not executed as one statement
Deposit_credit_conflict(k) ==
    LET t == deposits.tasks[k] IN
    /\ t.kind = "call" /\ t.pc = "tx_upsert" /\ t.saw = "none"
    /\ deposits.rows[t.sig].lockedBy # 0
    /\ deposits.rows[t.sig].status = "none"
    /\ deposits' = [deposits EXCEPT !.tasks[k].pc = "aborted"]
    /\ UNCHANGED <<wallet, snapshots, depRest>>

\* the crediting transaction: update of the balance with the computed
\* newBalance, the "deposit" snapshot, the DEPOSIT transaction, commit
Deposit_credit_commit(k) ==
    LET t == deposits.tasks[k]
        newBalance == t.snapBalance + DepositAmount
    IN /\ t.pc = "tx_write"
       /\ wallet' = [wallet EXCEPT ![t.userId].balance = newBalance]
       /\ snapshots' = Snapshot(t.userId, newBalance, "deposit")
       /\ deposits' = [deposits EXCEPT !.rows[t.sig].status = "confirmed",
                                       !.rows[t.sig].lockedBy = 0,
                                       !.rows[t.sig].credits = @ + 1,
                                       !.tasks[k].pc = "credited"]
       /\ UNCHANGED depRest

ValidationOutcomes == {"valid", "invalid", "timeout"}

NextDeposit ==
    \/ \E u \in LedgerClients, sig \in Signatures : Deposit_processDeposit(u, sig)
    \/ \E k \in DepositTasks : Deposit_processDeposit_find(k)
    \/ \E k \in DepositTasks, outcome \in ValidationOutcomes :
          Deposit_processDeposit_validate(k, outcome)
    \/ \E k \in DepositTasks, outcome \in ValidationOutcomes :
          Deposit_processDepositBackground(k, outcome)
    \/ \E k \in DepositTasks : Deposit_credit_find(k)
    \/ \E k \in DepositTasks : Deposit_credit_upsert(k)
    \/ \E k \in DepositTasks : Deposit_credit_conflict(k)
    \/ \E k \in DepositTasks : Deposit_credit_commit(k)

\* deposits: processDeposit calls and the background deposit processor
SpecDeposit == Init /\ [][NextDeposit]_vars

\* ------------------------------------------------- settleGame's arithmetic
\* JavaScript numbers are binary floating point: a value is m * 2^e with a
\* significand m of MantissaBits bits, and every operation returns the
\* representable value nearest to the exact result, ties to the even
\* significand.  FloatRound rounds the exact value (n / d) * 2^e.
RECURSIVE FloatRound(_, _, _)
FloatRound(n, d, e) ==
    IF n = 0 THEN [m |-> 0, e |-> 0]
    ELSE IF n \div d >= 2^MantissaBits THEN FloatRound(n, d * 2, e + 1)
    ELSE IF n \div d < 2^(MantissaBits - 1) THEN FloatRound(n * 2, d, e - 1)
    ELSE LET q == n \div d
             r == n % d
             up == 2 * r > d \/ (2 * r = d /\ q % 2 = 1)
             m == IF up THEN q + 1 ELSE q
         IN IF m = 2^MantissaBits THEN [m |-> 2^(MantissaBits - 1), e |-> e + 1]
            ELSE [m |-> m, e |-> e]

\* the number a decimal literal or JSON number n / d denotes
FloatOf(n, d) == FloatRound(n, d, 0)

\* the common exponent of two operands and an operand's significand at it
FloatExp(a, b) ==
    IF a.m = 0 THEN b.e ELSE IF b.m = 0 THEN a.e ELSE IF a.e < b.e THEN a.e ELSE b.e
FloatAt(a, e) == IF a.m = 0 THEN 0 ELSE a.m * 2^(a.e - e)

\* a * b, a - b (for a >= b) and a + b of JavaScript numbers
FloatMul(a, b) == FloatRound(a.m * b.m, 1, a.e + b.e)
FloatSub(a, b) == FloatRound(FloatAt(a, FloatExp(a, b)) - FloatAt(b, FloatExp(a, b)),
                             1, FloatExp(a, b))
FloatAdd(a, b) == FloatRound(FloatAt(a, FloatExp(a, b)) + FloatAt(b, FloatExp(a, b)),
                             1, FloatExp(a, b))

ShootoutModes == {"house", "pvp"}

\* settleGame's payout computation for a game with a wager of `cents`
\* hundredths of a token: rtp, totalPot, rake and winnerPayout
Shootout_settleGame_payout(cents, mode) ==
    LET wagerAmount == FloatOf(cents, 100)
        rtp == FloatOf(IF mode = "house" THEN HOUSE_RTP ELSE PVP_RTP, 1000)
        totalPot == FloatMul(wagerAmount, FloatOf(2, 1))
        rake == FloatMul(totalPot, FloatSub(FloatOf(1, 1), rtp))
        winnerPayout == FloatSub(totalPot, rake)
    IN /\ pots = NoPot
       /\ pots' = [pc |-> "settled", mode |-> mode, wagerAmount |-> wagerAmount,
                   totalPot |-> totalPot, rake |-> rake, winnerPayout |-> winnerPayout]
       /\ UNCHANGED <<now, wallet, crashVars, calls, gsRounds, withdrawalCooldowns, hist,
                      events, shootout, fair, withdrawals, jobs, snapshots,
                   deposits>>

NextPayout ==
    \E cents \in 1..MaxWagerCents, mode \in ShootoutModes :
        Shootout_settleGame_payout(cents, mode)

\* the payout computations of settleGame over the wagers a client can send
SpecPayout == Init /\ [][NextPayout]_vars

\* ------------------------------------------- requestWithdrawal's arithmetic
\* a / b and a <= b of JavaScript numbers, Math.floor of a number >= 0
FloatDiv(a, b) == FloatRound(a.m, b.m, a.e - b.e)
FloatLeq(a, b) == FloatAt(a, FloatExp(a, b)) <= FloatAt(b, FloatExp(a, b))
FloatFloor(a) == IF a.e >= 0 THEN a ELSE FloatRound(a.m \div 2^(0 - a.e), 1, 0)

\* sanitizeAmount: Math.floor(amount * 10^MAX_DECIMALS) / 10^MAX_DECIMALS
sanitizeAmount(amount) ==
    FloatDiv(FloatFloor(FloatMul(amount, FloatOf(10^MaxDecimals, 1))),
             FloatOf(10^MaxDecimals, 1))

\* requestWithdrawal for an account with a balance of `tenths` tenths of a
\* token and nothing locked, and an amount of `amountTenths`: the amount is
\* sanitized and compared with the withdrawable balance, and the
\* transaction writes newBalance and creates the rows.
Deposit_requestWithdrawal_amounts(tenths, amountTenths) ==
    LET balance == FloatOf(tenths, 10)
        sanitizedAmount == sanitizeAmount(FloatOf(amountTenths, 10))
        currentWithdrawable == sanitizeAmount(balance)
        newBalance == sanitizeAmount(FloatSub(balance, sanitizedAmount))
    IN /\ pots = NoPot
       /\ FloatLeq(sanitizedAmount, currentWithdrawable)
       /\ pots' = [pc |-> "transfer", balanceBefore |-> balance, amount |-> sanitizedAmount,
                   balance |-> newBalance, status |-> "processing", txStatus |-> "PENDING"]
       /\ UNCHANGED <<now, wallet, crashVars, calls, gsRounds, withdrawalCooldowns, hist,
                      events, shootout, fair, withdrawals, jobs, snapshots,
                   deposits>>

\* processWithdrawalBackground: the transfer rejects
Deposit_processWithdrawal_fails ==
    /\ pots.pc = "transfer"
    /\ pots' = [pots EXCEPT !.pc = "refund"]
    /\ UNCHANGED <<now, wallet, crashVars, calls, gsRounds, withdrawalCooldowns, hist,
                   events, shootout, fair, withdrawals, jobs, snapshots,
                   deposits>>

\* processWithdrawalBackground: the catch block's transaction -- balance
\* incremented by amount, the row failed, the transaction FAILED
Deposit_processWithdrawal_refund ==
    /\ pots.pc = "refund"
    /\ pots' = [pots EXCEPT !.pc = "reconciled",
                            !.balance = FloatAdd(@, pots.amount),
                            !.status = "failed",
                            !.txStatus = "FAILED"]
    /\ UNCHANGED <<now, wallet, crashVars, calls, gsRounds, withdrawalCooldowns, hist,
                   events, shootout, fair, withdrawals, jobs, snapshots,
                   deposits>>

NextReversal ==
    \/ \E tenths \in 1..MaxBalanceTenths, amountTenths \in 1..MaxBalanceTenths :
          Deposit_requestWithdrawal_amounts(tenths, amountTenths)
    \/ Deposit_processWithdrawal_fails
    \/ Deposit_processWithdrawal_refund

\* one withdrawal whose transfer fails, with the numbers the build computes
SpecReversal == Init /\ [][NextReversal]_vars

\* ------------------------------------------------------------------ claims
Discarded(g) == g <= created /\ activeGames[g].status = "absent"
Quiet(g) == /\ \A c \in InFlight : c.game # g
            /\ gameTask[g].pc = "none"
CrashCompleted(g) ==
    \/ Discarded(g)
    \/ activeGames[g].status = "crashed" /\ gameTask[g].pc = "none"

\* C1: ledger non-negativity -- in every state, for every account,
\* withdrawable = balance - pendingBalance - lockedBalance is >= 0 and the
\* balance itself is >= 0.
C1_LedgerNonNegative ==
    \A u \in Users : withdrawable(wallet[u]) >= 0 /\ wallet[u].balance >= 0

\* C2: no double-spend under concurrency -- whenever a lock commits (the
\* pendingBalance of an account grows), the amount it adds is available on
\* the account at that moment: check and increment are one atomic step.
C2_LockIsAtomic ==
    [][\A u \in Users :
          wallet'[u].pendingBalance > wallet[u].pendingBalance
          => wallet'[u].pendingBalance - wallet[u].pendingBalance
               <= withdrawable(wallet[u])]_vars

\* C3: users can only bet or withdraw from the withdrawable balance -- every
\* operation that locks or debits an account (BalanceService.placeBet,
\* DepositService.requestWithdrawal, TransactionService.create with type
\* GAME_BET or WITHDRAWAL) reaches its write only when its amount is at most
\* balance - pendingBalance - lockedBalance of the wallet row it has read.
C3_DebitWithinWithdrawable ==
    \A c \in InFlight :
        (\/ c.pc \in {"lock_write", "wd_write"}
         \/ c.pc = "tx_write" /\ TxType(c.op) \in {"GAME_BET", "WITHDRAWAL"})
        => c.amount <= withdrawable(snapWallet(c))

\* C4: at-most-one settlement in a crash round -- for every round and every
\* participant the ledger is settled at most once: never a win and a loss,
\* and neither of them twice.
C4_SettledAtMostOnce ==
    \A g \in GameIds, u \in Users : winCredits[g][u] + lossDebits[g][u] <= 1

\* C5: cashOut is exactly-once per player -- at most one cashOut call of a
\* player succeeds in a round, and a call for a Position that already has a
\* recorded cash-out changes neither the Position nor a balance.
C5_CashOutOnce ==
    \A g \in GameIds, u \in Users : cashOk[g][u] <= 1

\* C6: every lock is eventually settled -- once the Crashed transition of a
\* round has completed (at the latest once the round is discarded) and no
\* call on the round is in flight, every wager lock taken for the round has
\* been settled by a win or a loss.
C6_EveryLockSettled ==
    \A g \in GameIds :
        (CrashCompleted(g) /\ Quiet(g))
        => \A u \in Users : lockCount[g][u] = winCredits[g][u] + lossDebits[g][u]

\* C7: at most one bet per player per round -- at most one placeBet call of
\* a player succeeds on a round and at most one wager lock is taken on the
\* player's account for that round.
C7_OneBetPerPlayer ==
    \A g \in GameIds, u \in Users : betOk[g][u] <= 1 /\ lockCount[g][u] <= 1

\* C8: placeBet is valid only in Betting -- a placeBet call completes (its
\* Position is recorded, its funds stay locked) only while the round is in
\* the Betting phase.
C8_BetOnlyWhileBetting ==
    [][\A g \in GameIds, u \in Users :
          betOk'[g][u] > betOk[g][u] => activeGames[g].status = "waiting"]_vars

\* C9: cashOut succeeds only while the round is Running and the
\* server-computed multiplier is strictly below the crash point -- every
\* recorded cash-out multiplier m satisfies 1.00 <= m < crashPoint and its
\* payout is floor(wager * m * 10000) / 10000; a cashOut succeeds only in a
\* Running round, at the multiplier of the elapsed time; a round whose
\* crash point is 1.00 has no cash-out.
C9_PositionsOk ==
    \A g \in GameIds :
        LET game == activeGames[g] IN
        /\ \A i \in 1..Len(game.players) :
              LET p == game.players[i] IN
              p.odercashedOutAt # 0 =>
                 /\ 100 <= p.odercashedOutAt
                 /\ p.odercashedOutAt < game.crashPoint
                 /\ p.oderpayout * 100 <= p.oderwager * p.odercashedOutAt
                 /\ p.oderwager * p.odercashedOutAt < (p.oderpayout + 1) * 100
        /\ game.status \in {"waiting", "running", "crashed"} /\ game.crashPoint = 100
              => \A u \in Users : cashOk[g][u] = 0

C9_CashOutStep ==
    \A g \in GameIds, u \in Users :
        cashOk'[g][u] > cashOk[g][u] =>
            LET m == getMultiplierAtTime(now - activeGames[g].startTime)
                i == PlayerIndex(activeGames'[g].players, u)
            IN /\ activeGames[g].status = "running"
               /\ activeGames'[g].status = "running"
               /\ m < activeGames[g].crashPoint
               /\ i # 0
               /\ activeGames'[g].players[i].odercashedOutAt = m

C9_CashOutBelowCrashPoint == [](C9_PositionsOk) /\ [][C9_CashOutStep]_vars

\* C9 witness: a player cashed out at 2.93x in a round crashing at 3.00x and
\* the truncated payout floor(30 * 2.93) = 87 was credited.
C9_Witness ==
    \E g \in GameIds, u \in Users :
        LET i == PlayerIndex(activeGames[g].players, u) IN
        /\ i # 0
        /\ activeGames[g].players[i].odercashedOutAt = 293
        /\ activeGames[g].players[i].oderpayout = 87
        /\ activeGames[g].crashPoint = 300
        /\ winCredits[g][u] = 1

\* C10: the multiplier of a cash-out is recomputed by the server and never
\* supplied by the caller -- every cashed-out GameService round records the
\* multiplier of the time elapsed since its start at some moment of the
\* cash-out call, and its payout is the payout at that multiplier.
C10_MultiplierFromServer ==
    \A r \in 1..Len(gsRounds) :
        gsRounds[r].status = "COMPLETED" =>
            \E t \in gsRounds[r].startedAt..gsRounds[r].endedAt :
                /\ gsRounds[r].cashedOutAt = getMultiplierAtTime(t - gsRounds[r].startedAt)
                /\ gsRounds[r].payout =
                       calculatePayout(gsRounds[r].wagerAmount, gsRounds[r].cashedOutAt)

\* C11: crash round phases only advance Betting -> Running -> Crashed --
\* the status of a round changes only from absent (not yet registered) to
\* waiting, waiting to running, running to crashed, and crashed to absent
\* (discarded); a discarded round never comes back; the loss-settlement loop
\* starts in exactly the steps that take the round from running to crashed,
\* from its first player, also when startGame or crashGame is invoked again.
C11_PhaseStep ==
    \A g \in GameIds :
        LET s == activeGames[g].status
            t == activeGames'[g].status
            LoopPcs == {"loss_read", "loss_write", "loss_done", "finalize"}
        IN /\ s # t => <<s, t>> \in {<<"absent", "waiting">>, <<"waiting", "running">>,
                                     <<"running", "crashed">>, <<"crashed", "absent">>}
           /\ Discarded(g) => t = "absent"
           /\ (s = "running" /\ t = "crashed")
                 => gameTask'[g] = LoopTask(activeGames[g].players, 0)
           /\ (gameTask[g].pc \notin LoopPcs /\ gameTask'[g].pc \in LoopPcs)
                 => (s = "running" /\ t = "crashed")

C11_PhasesOnlyAdvance == [][C11_PhaseStep]_vars

\* C11 witness: the round was crashed by a direct invocation, its loss loop
\* has run once and finished, and the crash timer's own invocation of
\* crashGame is still to come.
C11_Witness ==
    \E g \in GameIds :
        /\ activeGames[g].status = "crashed"
        /\ gameTask[g].pc = "none"
        /\ \E t \in timers : t.kind = "crash" /\ t.game = g
        /\ \E t \in timers : t.kind = "delete" /\ t.game = g
        /\ \E u \in Users : lossDebits[g][u] = 1

\* C12: every created crash round eventually reaches Crashed through its
\* own timers, whatever the players do -- a round that is waiting or running
\* is eventually crashed -- and a round leaves the registry only in a step
\* taken when it is crashed, its settlement has finished and its cleanup
\* timer, set CLEANUP_DELAY_MS before, is due.
C12_Removal ==
    \A g \in GameIds :
        (activeGames[g].status # "absent" /\ activeGames'[g].status = "absent")
        => /\ activeGames[g].status = "crashed"
           /\ gameTask[g].pc = "none"
           /\ \E t \in timers : t.kind = "delete" /\ t.game = g /\ TimerDue(t)

C13_SingleSharedRound ==
    Cardinality({g \in GameIds : activeGames[g].status \in {"waiting", "running"}}) <= 1

\* C14: rounds run continuously -- the step that ends the Crashed transition
\* of a round calls createGame (as long as the behaviour may create a round
\* at all), and once a round is in its Crashed transition some other round
\* is eventually in Betting.
C14_FinishCreates ==
    \A g \in GameIds :
        (gameTask[g].pc = "finalize" /\ gameTask'[g].pc = "none" /\ CanCreateUpTo(MaxGames))
        => BagCardinality(creating') = BagCardinality(creating) + 1

C15_SeedNotDisclosedEarly ==
    \A e \in events :
        e.serverSeed =>
            e.phase \notin (IF e.round = "crash" THEN {"waiting", "running"}
                            ELSE {"created", "waiting", "countdown", "spinning"})

\* C16: crashPoint is computed once at creation, never changes afterwards,
\* and no response or broadcast carries it before the round is Crashed.
C16_NotExposed ==
    \A e \in events :
        (e.round = "crash" /\ e.crashPoint) => e.phase \notin {"waiting", "running"}

C16_Unchanged ==
    \A g \in GameIds :
        (activeGames[g].status # "absent" /\ activeGames'[g].status # "absent")
        => activeGames'[g].crashPoint = activeGames[g].crashPoint

C16_CrashPointHidden == [](C16_NotExposed) /\ [][C16_Unchanged]_vars

\* C17: commit before wager -- whenever a funds lock for a crash round or a
\* shootout game has been accepted, the serverSeedHash of that round has
\* been published before.
C17_CommitBeforeWager ==
    \A c \in InFlight :
        c.pc = "lock_done" =>
            CASE c.op = "placeBet" ->
                   \E e \in events : e.round = "crash" /\ e.game = c.game /\ e.serverSeedHash
              [] c.op = "shootoutCreate" ->
                   \E e \in events : e.round = "shootout" /\ e.game = c.game /\ e.serverSeedHash
              [] OTHER -> TRUE

C19_VerifyExact ==
    fair.pc = "checked" =>
        (fair.valid <=>
            /\ hashSeed(fair.serverSeed) = fair.serverSeedHash
            /\ fair.claimed = 10 * calculateCrashPoint(fair.serverSeed, fair.clientSeed,
                                                       fair.nonce, fair.houseEdge))

PhaseRank(status) ==
    CASE status = "created" -> 0
      [] status = "waiting" -> 1
      [] status = "countdown" -> 2
      [] status = "spinning" -> 3
      [] status = "completed" -> 4
      [] OTHER -> 5

\* C21: shootout phases only advance Lobby -> Countdown -> Resolving ->
\* Settled, each transition taking effect at most once per game; a
\* house-mode game is never in Lobby (never waiting, joined or cancelled)
\* and goes directly to Countdown.
C21_Once ==
    \A g \in ShootoutIds :
        LET game == shootout[g] IN
        /\ game.countdowns <= 1 /\ game.spins <= 1 /\ game.settles <= 1
        /\ game.mode = "house" =>
              /\ game.status \notin {"waiting", "cancelled"}
              /\ game.joins = 0 /\ game.cancels = 0 /\ game.unlocks = 0

C21_Step ==
    \A g \in ShootoutIds :
        PhaseRank(shootout'[g].status) >= PhaseRank(shootout[g].status)

C21_PhasesOnlyAdvance == [](C21_Once) /\ [][C21_Step]_vars

\* no request and no settlement of a shootout game is in progress or due
ShootoutQuiet ==
    /\ calls = EmptyBag
    /\ timers = {}
    /\ \A g \in ShootoutIds :
          shootout[g].tasks = <<>> /\ shootout[g].status \in {"cancelled", "removed"}

\* C22: joinGame succeeds only for a game in Lobby and never for the
\* game's creator; under concurrent joinGame calls for the same game at
\* most one opponent is accepted, exactly one Resolving timer is effective,
\* and no rejected or superseded joiner is left with funds locked.
C22_OneOpponent ==
    /\ \A c \in InFlight :
          c.op = "shootoutJoin" =>
             /\ c.user # shootout[c.game].creatorId
             /\ shootout[c.game].mode = "pvp"
    /\ \A g \in ShootoutIds :
          /\ shootout[g].joins <= 1
          /\ shootout[g].spins <= 1
          /\ shootout[g].joins = 1 /\ shootout[g].status \in {"completed", "removed"}
                => shootout[g].spins = 1
    /\ ShootoutQuiet => \A u \in Users : wallet[u].pendingBalance = 0

\* C23: cancelGame is valid only in Lobby and only by the creator -- a
\* cancel by any other user, or for a game that is not waiting in the
\* lobby, fails and leaves the game, the lobby list and every account
\* balance unchanged.
C23_Accepted ==
    \A c \in BagToSet(calls') :
        (c.op = "shootoutCancel" /\ c.pc = "unlock_read"
            /\ CopiesIn(c, calls') > CopiesIn(c, calls))
        => /\ shootout[c.game].status = "waiting"
           /\ shootout[c.game].creatorId = c.user

C23_Rejected ==
    (\E e \in events' \ events : e.kind = "cancel_error")
    => /\ UNCHANGED <<shootout, wallet, calls, timers>>

C23_CancelOnlyInLobbyByCreator ==
    /\ [](\A c \in InFlight :
            c.op = "shootoutCancel" => c.user = shootout[c.game].creatorId)
    /\ [][C23_Accepted /\ C23_Rejected]_vars

C23_Witness ==
    /\ \E e \in events : e.kind = "cancel_error" /\ e.phase = "waiting"
    /\ \E g \in ShootoutIds : shootout[g].status = "waiting" /\ shootout[g].unlocks = 0
    /\ \A u \in Users : wallet[u].balance = InitBalance

\* C24: a shootout game cannot be cancelled once it has started -- under any
\* interleaving of cancelGame and joinGame on the same game exactly one of
\* them takes effect, so a game is never both cancelled (creator's lock
\* released) and started, resolved and settled.
C24_CancelOrJoin ==
    \A g \in ShootoutIds :
        LET game == shootout[g] IN
        /\ ~(game.unlocks >= 1 /\ game.countdowns >= 1)
        /\ ~(game.unlocks >= 1 /\ game.settles >= 1)
        /\ ~(game.cancels >= 1 /\ game.joins >= 1)

\* wagers of the games of user u that wait in the lobby, from game k on
RECURSIVE WaitingWagers(_, _)
WaitingWagers(u, k) ==
    IF k > Len(shootout) THEN 0
    ELSE (IF shootout[k].creatorId = u /\ shootout[k].status \in {"created", "waiting"}
          THEN shootout[k].wagerAmount ELSE 0) + WaitingWagers(u, k + 1)

\* C25: a successful cancelGame fully reverses the creator's lock and moves
\* no funds -- afterwards the creator's balance, locked amount and
\* withdrawable amount are what they were before createGame (the wagers of
\* the creator's other waiting games stay locked), and the wager is
\* released exactly once even when cancelGame is called repeatedly or
\* concurrently for the same game.
C25_CancelReverses ==
    /\ \A g \in ShootoutIds : shootout[g].unlocks <= 1
    /\ calls = EmptyBag =>
          \A u \in Users :
              /\ wallet[u].balance = InitBalance
              /\ wallet[u].lockedBalance = 0
              /\ wallet[u].pendingBalance = WaitingWagers(u, 1)

\* C26: the outcome is fixed at resolve time -- the winner is determined
\* once, in startSpin, as the creator iff the normalized hash is below p
\* (house RTP in house mode, one half in PvP); nothing afterwards changes the
\* recorded winner, and only that winner is credited in settleGame.
C26_WinnerOf(game) ==
    IF Player1Wins(combineSeeds(game.serverSeed, game.clientSeed, 0), game.mode = "house")
    THEN game.creatorId
    ELSE IF game.mode = "house" THEN "HOUSE" ELSE game.player2Id

C26_Determined ==
    \A g \in ShootoutIds :
        LET game == shootout[g] IN
        /\ game.spins <= 1
        /\ game.winnerId # "" => game.winnerId = C26_WinnerOf(game)
        /\ \A u \in Users : game.credits[u] > 0 => game.winnerId = u

C26_Kept ==
    \A g \in ShootoutIds :
        shootout[g].winnerId # "" => shootout'[g].winnerId = shootout[g].winnerId

C26_OutcomeFixedAtResolve == [](C26_Determined) /\ [][C26_Kept]_vars

\* C27: pot conservation -- for every settled PvP game the winner's payout
\* and the rake add up to exactly twice the wager.
C27_PotConserved ==
    (pots.pc = "settled" /\ pots.mode = "pvp")
    => FloatAdd(pots.winnerPayout, pots.rake) = FloatMul(FloatOf(2, 1), pots.wagerAmount)

\* C28: each game is settled exactly once -- the winner is credited through
\* exactly one creditWinnings and the loser debited through exactly one
\* deductLoss; once the settlement is through, no participant is left
\* unsettled or was settled twice.
C28_Participants(game) == {game.creatorId} \cup {u \in Users : game.locks[u] > 0}

C28_SettledOnce ==
    \A g \in ShootoutIds :
        LET game == shootout[g] IN
        /\ game.settles <= 1
        /\ \A u \in Users : game.credits[u] + game.debits[u] <= 1
        /\ \A u, v \in Users : game.credits[u] > 0 /\ game.credits[v] > 0 => u = v
        /\ (game.settles >= 1 /\ game.tasks = <<>> /\ calls = EmptyBag)
              => /\ \A u \in C28_Participants(game) :
                       game.credits[u] + game.debits[u] = 1
                 /\ \A u \in Users : game.locks[u] <= 1

\* C30: a withdrawal never double-settles -- it is refunded at most once
\* and never both paid out externally and refunded, whatever the
\* interleaving of the background processor, a slow transfer and the admin
\* refund of stuck withdrawals.
C30_NoDoubleSettle ==
    \A i \in WithdrawalIds :
        LET row == withdrawals.rows[i] IN
        /\ row.refunds <= 1
        /\ ~(row.paid >= 1 /\ row.refunds >= 1)

\* C29: settlement reversal -- when the external transfer of a withdrawal
\* fails, then after the reconciliation the account's balance is exactly
\* what it was before the request, and the withdrawal and its ledger
\* operation are marked failed.
C29_ReversalExact ==
    pots.pc = "reconciled"
    => /\ pots.balance = pots.balanceBefore
       /\ pots.status = "failed"
       /\ pots.txStatus = "FAILED"

\* C31: every background settlement job ends either with its operation
\* settled or, on failure, with the ledger mutation reversed and the
\* operation marked failed -- no job ends with its failure only logged.
C31_NoFailureOnlyLogged ==
    /\ \A j \in BagToSet(jobs) : j.pc # "logged"
    /\ \A i \in WithdrawalIds :
          withdrawals.rows[i].pc = "done" =>
             \/ withdrawals.rows[i].status = "confirmed"
             \/ withdrawals.rows[i].status = "failed" /\ withdrawals.rows[i].refunds >= 1

\* background transfers still waiting for their result
PendingTransfers(bag) ==
    BagCardinality([j \in {k \in BagToSet(bag) : k.pc = "transfer"} |-> CopiesIn(j, bag)])

\* C32: the in-game outcome is never rolled back by settlement -- the
\* success, failure or delay of the external transfer of a bet or a payout
\* leaves every balance, every lock and the recorded result of the game as
\* the engine set them, and placeBet / creditWinnings hand their result to
\* the caller without waiting for the transfer.
C32_TransferEnds ==
    PendingTransfers(jobs') < PendingTransfers(jobs)
    => UNCHANGED <<wallet, shootout, activeGames, gsRounds, calls, timers>>

C32_NoWaiting ==
    /\ \A c \in InFlight :
          (c.op = "shootoutCreateHouse" /\ c.pc = "lock_done")
          => ENABLED Shootout_createGame_session(c)
    /\ \A t \in ShootoutTasks :
          shootout[t[1]].tasks[t[2]].pc = "finalize"
          => ENABLED Shootout_settleGame_finish(t[1], t[2])

C32_OutcomeNotRolledBack == [](C32_NoWaiting) /\ [][C32_TransferEnds]_vars

C32_Witness ==
    /\ \E j \in BagToSet(jobs) : j.kind = "winnings" /\ j.pc = "logged"
    /\ \E j \in BagToSet(jobs) : j.kind = "bet" /\ j.pc = "transfer"
    /\ \E g \in ShootoutIds :
          /\ shootout[g].status = "removed"
          /\ shootout[g].winnerId = shootout[g].creatorId
          /\ wallet[shootout[g].creatorId].balance > InitBalance
          /\ wallet[shootout[g].creatorId].pendingBalance = 0

\* C33: every mutation of an account's balance fields appends an audit
\* snapshot that records the resulting balance (lock, release, win, loss,
\* deposit, withdrawal debit and withdrawal refund alike), and existing
\* snapshots are never modified.
C33_Step ==
    \A u \in Users :
        /\ Len(snapshots'[u]) >= Len(snapshots[u])
        /\ SubSeq(snapshots'[u], 1, Len(snapshots[u])) = snapshots[u]
        /\ wallet'[u] # wallet[u] =>
              /\ Len(snapshots'[u]) = Len(snapshots[u]) + 1
              /\ snapshots'[u][Len(snapshots'[u])].balance = wallet'[u].balance

C33_SnapshotOnEveryMutation == [][C33_Step]_vars

\* the step taken is a step of the suspended call c
StepOf(c) == CopiesIn(c, calls') < CopiesIn(c, calls)

\* C34 as stated: a successful lock decreases the spendable balance by
\* exactly the amount and increases the amount locked in game by exactly
\* the amount; a lock rejected for insufficient funds leaves every balance
\* field unchanged.
C34_LockStepAsStated ==
    \A c \in InFlight :
        /\ (c.pc = "lock_write" /\ StepOf(c))
           => /\ wallet'[c.user].balance = wallet[c.user].balance - c.amount
              /\ wallet'[c.user].pendingBalance = wallet[c.user].pendingBalance + c.amount
        /\ (c.pc = "lock_read" /\ StepOf(c) /\ InsufficientFunds(c.amount, wallet[c.user]))
           => wallet' = wallet

C34_LockAsStated == [][C34_LockStepAsStated]_vars

\* C34, amended: a successful lock leaves the balance as it is, increases
\* the amount locked in game by exactly the amount and so decreases the
\* withdrawable amount by exactly the amount, for this account only; a
\* lock rejected for insufficient funds leaves every balance field unchanged.
C34_LockStep ==
    \A c \in InFlight :
        /\ (c.pc = "lock_write" /\ StepOf(c))
           => /\ wallet'[c.user].balance = wallet[c.user].balance
              /\ wallet'[c.user].lockedBalance = wallet[c.user].lockedBalance
              /\ wallet'[c.user].pendingBalance = wallet[c.user].pendingBalance + c.amount
              /\ withdrawable(wallet'[c.user]) = withdrawable(wallet[c.user]) - c.amount
              /\ \A u \in Users \ {c.user} : wallet'[u] = wallet[u]
        /\ (c.pc = "lock_read" /\ StepOf(c) /\ InsufficientFunds(c.amount, wallet[c.user]))
           => /\ wallet' = wallet
              /\ CopiesIn(c, calls') = CopiesIn(c, calls) - 1
              /\ BagCardinality(calls') = BagCardinality(calls) - 1

C34_Lock == [][C34_LockStep]_vars

C34_Witness ==
    /\ wallet["u1"].pendingBalance > 0
    /\ wallet["u1"].balance = InitBalance
    /\ Len(shootout) >= 1
    /\ \E c \in InFlight : c.pc = "lock_read" /\ InsufficientFunds(c.amount, wallet[c.user])

\* wagers of user u in crash rounds that are not over: the positions not
\* cashed out, from round g on
RECURSIVE C35_CrashWagers(_, _)
C35_CrashWagers(u, g) ==
    IF g > MaxGames THEN 0
    ELSE LET game == activeGames[g]
             i == PlayerIndex(game.players, u)
         IN (IF game.status \in {"waiting", "running"} /\ i # 0
                /\ game.players[i].odercashedOutAt = 0
             THEN game.players[i].oderwager ELSE 0) + C35_CrashWagers(u, g + 1)

\* wagers of user u in shootout games neither settled nor cancelled, from
\* game k on
RECURSIVE C35_ShootoutWagers(_, _)
C35_ShootoutWagers(u, k) ==
    IF k > Len(shootout) THEN 0
    ELSE (IF /\ shootout[k].status \in {"created", "waiting", "countdown", "spinning"}
             /\ u \in {shootout[k].creatorId, shootout[k].player2Id}
          THEN shootout[k].wagerAmount ELSE 0) + C35_ShootoutWagers(u, k + 1)

C35_Quiet ==
    /\ calls = EmptyBag
    /\ \A g \in GameIds : gameTask[g].pc = "none"
    /\ \A k \in ShootoutIds : shootout[k].tasks = <<>>

\* C35: lock conservation -- whenever no operation is in flight, the
\* amount locked in game of every account equals the sum of its wagers in
\* the crash rounds and shootout games that are neither settled nor
\* cancelled (so it is 0 once all its rounds have ended).
C35_LockConservation ==
    C35_Quiet =>
        \A u \in Users :
            wallet[u].pendingBalance = C35_CrashWagers(u, 1) + C35_ShootoutWagers(u, 1)

\* C37: withdrawal rate limit -- at most one withdrawal of a user is
\* accepted within the cooldown: any two accepted withdrawals of one user
\* lie at least WITHDRAWAL_COOLDOWN_MS apart, also when the requests were
\* sent at the same time.
C37_OnePerCooldown ==
    \A i, j \in WithdrawalIds :
        (i < j /\ withdrawals.rows[i].userId = withdrawals.rows[j].userId)
        => (withdrawals.rows[j].processedAt - withdrawals.rows[i].processedAt) * TickMs
              >= WITHDRAWAL_COOLDOWN_MS

\* the ledger transaction of a finished withdrawal carries that
\* withdrawal's result
C38_RecordFollowsStatus ==
    \A i \in WithdrawalIds :
        LET row == withdrawals.rows[i] IN
        row.pc = "done"
        => /\ row.txStatus = "CONFIRMED" <=> (row.status = "confirmed" /\ row.paid >= 1)
           /\ row.txStatus = "FAILED" <=> (row.status = "failed" /\ row.refunds >= 1)

\* a step that neither completes nor refunds withdrawal i leaves its
\* ledger transaction alone
C38_OwnRecordOnly ==
    \A i \in WithdrawalIds :
        (/\ withdrawals'.rows[i].pc = withdrawals.rows[i].pc
         /\ withdrawals'.rows[i].status = withdrawals.rows[i].status)
        => withdrawals'.rows[i].txStatus = withdrawals.rows[i].txStatus

\* C38: the ledger transaction record of a withdrawal ends up with that
\* withdrawal's status only -- CONFIRMED iff its transfer succeeded, FAILED
\* iff it was refunded -- and completing or refunding one withdrawal never
\* changes the record of another pending withdrawal of the same user.
C38_LedgerRecord == [](C38_RecordFollowsStatus) /\ [][C38_OwnRecordOnly]_vars

\* a GameService round that is COMPLETED or CANCELLED keeps its result
C39_ResultKept ==
    \A r \in 1..Len(gsRounds) :
        gsRounds[r].status \in {"COMPLETED", "CANCELLED"} => gsRounds'[r] = gsRounds[r]

\* the GAME_WIN credit of cashoutCrash is committed for an ACTIVE round only
C39_CreditWhileActive ==
    \A c \in InFlight :
        (c.op = "cashoutCrash" /\ c.pc = "tx_write" /\ StepOf(c))
        => gsRounds[c.game].status = "ACTIVE"

\* C39: a GameService round that is COMPLETED or CANCELLED is never settled
\* again -- cashoutCrash and crashGame change the balance or the round's
\* result at most once per round, and only while the round is ACTIVE.
C39_SettledOnce == [][C39_ResultKept /\ C39_CreditWhileActive]_vars

\* wagers of the Positions of user u recorded on crash rounds, from round g on
RECURSIVE C40_PositionWagers(_, _)
C40_PositionWagers(u, g) ==
    IF g > MaxGames THEN 0
    ELSE LET i == PlayerIndex(activeGames[g].players, u)
         IN (IF i # 0 THEN activeGames[g].players[i].oderwager ELSE 0)
            + C40_PositionWagers(u, g + 1)

\* wagers of the shootout games user u takes part in, from game k on
RECURSIVE C40_ParticipantWagers(_, _)
C40_ParticipantWagers(u, k) ==
    IF k > Len(shootout) THEN 0
    ELSE (IF u \in {shootout[k].creatorId, shootout[k].player2Id}
          THEN shootout[k].wagerAmount ELSE 0) + C40_ParticipantWagers(u, k + 1)

\* while nothing is settled or released, the locked amount of an account
\* covers the wagers of its Positions and of its shootout games
C40_LocksBehind ==
    \A u \in Users :
        wallet[u].pendingBalance >= C40_PositionWagers(u, 1) + C40_ParticipantWagers(u, 1)

\* a call whose lock fails ends there: no Position, no game, no countdown,
\* no timer, and the lobby as it was
C40_FailedLockStep ==
    \A c \in InFlight :
        (c.pc = "lock_read" /\ StepOf(c) /\ InsufficientFunds(c.amount, wallet[c.user]))
        => /\ BagCardinality(calls') = BagCardinality(calls) - 1
           /\ UNCHANGED <<wallet, activeGames, shootout, timers, events, hist>>

\* a Position, a game or an opponent is recorded by a call that holds a
\* committed lock of exactly the recorded wager
C40_RecordedStep ==
    /\ \A g \in GameIds, u \in Users :
          LET old == PlayerIndex(activeGames[g].players, u)
              new == PlayerIndex(activeGames'[g].players, u)
          IN (old = 0 /\ new # 0)
             => \E c \in InFlight :
                   /\ StepOf(c) /\ c.pc = "lock_done" /\ c.user = u /\ c.game = g
                   /\ c.amount = activeGames'[g].players[new].oderwager
                   /\ lockCount[g][u] >= 1
    /\ Len(shootout') > Len(shootout)
          => \E c \in InFlight :
                /\ StepOf(c) /\ c.pc = "lock_done"
                /\ c.user = shootout'[Len(shootout')].creatorId
                /\ c.amount = shootout'[Len(shootout')].wagerAmount
    /\ \A k \in ShootoutIds :
          (shootout'[k].player2Id # shootout[k].player2Id /\ shootout'[k].player2Id \in Users)
          => \E c \in InFlight :
                /\ StepOf(c) /\ c.pc = "lock_done" /\ c.game = k
                /\ c.user = shootout'[k].player2Id
                /\ c.amount = shootout[k].wagerAmount
                /\ shootout[k].locks[c.user] >= 1

C36_RejectedStep ==
    \A k \in DepositTasks :
        LET t == deposits.tasks[k] IN
        (/\ t.pc \in {"find", "tx_find"}
         /\ deposits.rows[t.sig].status = "confirmed"
         /\ deposits'.tasks[k] # t)
        => deposits'.tasks[k].pc = "rejected" /\ wallet' = wallet

\* C36: a deposit is credited at most once per transaction signature,
\* across repeated processDeposit calls and the background deposit
\* processor; a signature that is already confirmed is rejected with the
\* balance unchanged.
C36_CreditedOnce ==
    [](\A sig \in Signatures : deposits.rows[sig].credits <= 1)
    /\ [][C36_RejectedStep]_vars

====
